---- MODULE Spec2Model ----
(***************************************************************************)
(* Template module of tixgo: the Template aggregate, the HTML template     *)
(* renderer, the Postgres template repository and the application          *)
(* handlers that compose them (create, update, render, OTP mail).          *)
(*                                                                         *)
(* Go strings that are only compared are TLA+ strings.  Template strings   *)
(* (subject, content) and rendered output are sequences of lexical chunks: *)
(* "{{" and "}}" are the action delimiters, every other chunk is a piece   *)
(* of text or, inside an action, one word of the pipeline.                 *)
(***************************************************************************)
EXTENDS Integers, Sequences, FiniteSets, TLC

VARIABLES
    store,      \* rows of the templates table
    seq,        \* last value handed out by the BIGSERIAL id sequence
    now,        \* the wall clock read by time.Now()
    otpStore,   \* InMemoryOTPStore.store: email -> OTPEntry
    mails,      \* EventSendMail events published on the event bus
    proc,       \* one record per in-flight request: handler, position, locals, result
    calls,      \* requests accepted so far
    ent,        \* a Template value held by a caller of the domain package
    entCall,    \* the last domain-package call made on ent, with its arguments
    tempUserStore,  \* InMemoryTempUserStore.store: email -> TempUserEntry
    users,      \* the users table: its rows and its BIGSERIAL id sequence
    history,    \* the calls served by the in-memory stores, oldest first, with their results
    events      \* EventUserRegistered events published and not yet handled

vars == <<store, seq, now, otpStore, mails, proc, calls, ent, entCall,
          tempUserStore, users, history, events>>

-----------------------------------------------------------------------------
(* Bounds *)

MaxSeq == 2         \* ids the sequence may hand out
MaxTime == 1        \* last clock tick
NumProcs == 2       \* concurrent requests
MaxCalls == 3       \* requests accepted in one run

Procs == 1..NumProcs

-----------------------------------------------------------------------------
(* syserr: an error is the chain of its frames, outermost first; nil is <<>> *)

InternalCode == "internal"
InvalidArgumentCode == "invalid_argument"
NotFoundCode == "not_found"
ForbiddenCode == "forbidden"

NoErr == <<>>

New(code, message) == <<[code |-> code, msg |-> message]>>

Wrap(err, code, message) == New(code, message) \o err

Code(err) == err[1].code

ErrTemplateNotFound == New(NotFoundCode, "template not found")
ErrTemplateAlreadyExists == New("conflict", "template already exists")
ErrInvalidTemplateType == New(InvalidArgumentCode, "invalid template type")
ErrInvalidTemplateStatus == New(InvalidArgumentCode, "invalid template status")
ErrTemplateInactive == New(ForbiddenCode, "template is inactive")

-----------------------------------------------------------------------------
(* domain.Template *)

TemplateTypeEmail == "email"
TemplateTypeSMS == "sms"
TemplateTypePush == "push"

TemplateStatusActive == "active"
TemplateStatusInactive == "inactive"
TemplateStatusDraft == "draft"

NilTemplate == [nil |-> TRUE]

\* a Go []string: nil and the empty slice are different values
NilSlice == [isNil |-> TRUE, elems |-> <<>>]
Slice(s) == [isNil |-> FALSE, elems |-> s]

IsValidTemplateType(templateType) ==
    templateType \in {TemplateTypeEmail, TemplateTypeSMS, TemplateTypePush}

\* variant: the slug is not checked
NewTemplateAnySlug(name, slug, subject, content, templateType, variables, description, createdBy, clock) ==
    IF name = "" THEN
        [tmpl |-> NilTemplate, err |-> New(InvalidArgumentCode, "template name is required")]
    ELSE IF content = <<>> THEN
        [tmpl |-> NilTemplate, err |-> New(InvalidArgumentCode, "template content is required")]
    ELSE IF ~IsValidTemplateType(templateType) THEN
        [tmpl |-> NilTemplate, err |-> New(InvalidArgumentCode, "invalid template type")]
    ELSE
        [tmpl |-> [ID |-> 0, Name |-> name, Slug |-> slug, Subject |-> subject,
                   Content |-> content, Type |-> templateType,
                   Status |-> TemplateStatusDraft, Variables |-> variables,
                   Description |-> description, CreatedBy |-> createdBy,
                   CreatedAt |-> clock, UpdatedAt |-> clock],
         err |-> NoErr]

\* NewTemplate returns the pair (template, error)
NewTemplate(name, slug, subject, content, templateType, variables, description, createdBy, clock) ==
    IF name = "" THEN
        [tmpl |-> NilTemplate, err |-> New(InvalidArgumentCode, "template name is required")]
    ELSE IF slug = "" THEN
        [tmpl |-> NilTemplate, err |-> New(InvalidArgumentCode, "template slug is required")]
    ELSE IF content = <<>> THEN
        [tmpl |-> NilTemplate, err |-> New(InvalidArgumentCode, "template content is required")]
    ELSE IF ~IsValidTemplateType(templateType) THEN
        [tmpl |-> NilTemplate, err |-> New(InvalidArgumentCode, "invalid template type")]
    ELSE
        [tmpl |-> [ID |-> 0,
                   Name |-> name,
                   Slug |-> slug,
                   Subject |-> subject,
                   Content |-> content,
                   Type |-> templateType,
                   Status |-> TemplateStatusDraft,
                   Variables |-> variables,
                   Description |-> description,
                   CreatedBy |-> createdBy,
                   CreatedAt |-> clock,
                   UpdatedAt |-> clock],
         err |-> NoErr]

Activate(t, clock) == [t EXCEPT !.Status = TemplateStatusActive, !.UpdatedAt = clock]

\* variant: Deactivate sets the status Activate sets
DeactivateAsActivate(t, clock) == [t EXCEPT !.Status = TemplateStatusActive, !.UpdatedAt = clock]

Deactivate(t, clock) == [t EXCEPT !.Status = TemplateStatusInactive, !.UpdatedAt = clock]

\* variant: the subject is overwritten whatever the argument
UpdateAlwaysSubject(t, name, subject, content, description, variables, clock) ==
    [t EXCEPT !.Name = IF name # "" THEN name ELSE @,
              !.Subject = subject,
              !.Content = IF content # <<>> THEN content ELSE @,
              !.Description = IF description # "" THEN description ELSE @,
              !.Variables = IF ~variables.isNil THEN variables ELSE @,
              !.UpdatedAt = clock]

Update(t, name, subject, content, description, variables, clock) ==
    [t EXCEPT !.Name = IF name # "" THEN name ELSE @,
              !.Subject = IF subject # <<>> THEN subject ELSE @,
              !.Content = IF content # <<>> THEN content ELSE @,
              !.Description = IF description # "" THEN description ELSE @,
              !.Variables = IF ~variables.isNil THEN variables ELSE @,
              !.UpdatedAt = clock]

\* variant: only an inactive template counts as not active
IsActiveUnlessInactive(t) == t.Status # TemplateStatusInactive

IsActive(t) == t.Status = TemplateStatusActive

-----------------------------------------------------------------------------
(* adapters.HTMLTemplateRenderer, on top of Go's html/template              *)

\* names registered in the template.FuncMap, with the number of parameters
FuncNames == {"upper", "lower", "title", "trim", "contains", "replace",
              "default", "safeHTML", "safeURL"}

Arity(f) ==
    CASE f \in {"contains", "default"} -> 2
      [] f = "replace" -> 3
      [] OTHER -> 1

\* words that may stand inside an action besides function names: the fields
\* .Name and .otp and the string literal "User"
FieldKey(w) == IF w = ".Name" THEN "Name" ELSE "otp"

Whitespace == {" ", "\n", "\t"}

\* a map[string]interface{}: nil and the empty map are different values
NilMap == [isNil |-> TRUE, m |-> <<>>]
Map(f) == [isNil |-> FALSE, m |-> f]

\* template.Parse: text up to "{{", then the words of one action up to "}}".
\* It fails on an action left open, an empty action, and a word that is no
\* field, no string literal and no registered function.
RECURSIVE LexFrom(_, _, _, _, _)
LexFrom(s, i, inAction, words, items) ==
    IF i > Len(s) THEN
        [ok |-> ~inAction, items |-> items]
    ELSE IF ~inAction THEN
        IF s[i] = "{{" THEN LexFrom(s, i + 1, TRUE, <<>>, items)
        ELSE LexFrom(s, i + 1, FALSE, <<>>,
                     Append(items, [kind |-> "text", words |-> <<s[i]>>]))
    ELSE IF s[i] = "}}" THEN
        IF words = <<>> THEN [ok |-> FALSE, items |-> items]
        ELSE LexFrom(s, i + 1, FALSE, <<>>,
                     Append(items, [kind |-> "action", words |-> words]))
    ELSE IF s[i] \in {".Name", ".otp"} \cup {"\"User\""} \cup FuncNames THEN
        LexFrom(s, i + 1, TRUE, Append(words, s[i]), items)
    ELSE [ok |-> FALSE, items |-> items]

Parse(templateStr) == LexFrom(templateStr, 1, FALSE, <<>>, <<>>)

\* values of a pipeline: nil, string, bool, template.HTML, template.URL
ExecError == [kind |-> "error", v |-> <<>>]
Str(v) == [kind |-> "string", v |-> v]

EvalArg(w, m) ==
    IF w \in {".Name", ".otp"} THEN
        IF FieldKey(w) \in DOMAIN m THEN Str(m[FieldKey(w)]) ELSE [kind |-> "nil", v |-> <<>>]
    ELSE IF w \in {"\"User\""} THEN Str(<<"User">>)
    ELSE ExecError      \* a function named as an argument is called with no arguments

ToUpperChunk(c) == IF c = "ann" THEN "ANN" ELSE IF c = "Ann" THEN "ANN" ELSE c
ToLowerChunk(c) == IF c = "ANN" THEN "ann" ELSE IF c = "Ann" THEN "ann" ELSE c
TitleChunk(c) == IF c = "ann" THEN "Ann" ELSE c

RECURSIVE TrimLeft(_)
TrimLeft(s) == IF s # <<>> /\ Head(s) \in Whitespace THEN TrimLeft(Tail(s)) ELSE s

RECURSIVE TrimRight(_)
TrimRight(s) ==
    IF s # <<>> /\ s[Len(s)] \in Whitespace THEN TrimRight(SubSeq(s, 1, Len(s) - 1)) ELSE s

TrimSpace(s) == TrimRight(TrimLeft(s))

Contains(s, sub) ==
    \E i \in 1..(Len(s) + 1) :
        i + Len(sub) - 1 <= Len(s) /\ SubSeq(s, i, i + Len(sub) - 1) = sub

RECURSIVE ReplaceAll(_, _, _)
ReplaceAll(s, old, new) ==
    IF s = <<>> \/ old = <<>> THEN s
    ELSE IF Len(old) <= Len(s) /\ SubSeq(s, 1, Len(old)) = old THEN
        new \o ReplaceAll(SubSeq(s, Len(old) + 1, Len(s)), old, new)
    ELSE <<Head(s)>> \o ReplaceAll(Tail(s), old, new)

\* variant: default falls back only for nil, not for the empty string
ApplyDefaultNilOnly(f, args) ==
    IF f = "default" THEN
        IF args[2].kind = "nil" THEN args[1] ELSE args[2]
    ELSE IF \E i \in 1..Len(args) : args[i].kind # "string" THEN ExecError
    ELSE CASE f = "upper" -> Str([i \in 1..Len(args[1].v) |-> ToUpperChunk(args[1].v[i])])
           [] f = "lower" -> Str([i \in 1..Len(args[1].v) |-> ToLowerChunk(args[1].v[i])])
           [] f = "title" -> Str([i \in 1..Len(args[1].v) |-> TitleChunk(args[1].v[i])])
           [] f = "trim" -> Str(TrimSpace(args[1].v))
           [] f = "contains" -> [kind |-> "bool", v |-> Contains(args[1].v, args[2].v)]
           [] f = "replace" -> Str(ReplaceAll(args[1].v, args[2].v, args[3].v))
           [] f = "safeHTML" -> [kind |-> "html", v |-> args[1].v]
           [] OTHER -> [kind |-> "url", v |-> args[1].v]

\* the functions of the FuncMap; a string parameter accepts only a string
Apply(f, args) ==
    IF f = "default" THEN
        IF args[2].kind = "nil" \/ args[2] = Str(<<>>) THEN args[1] ELSE args[2]
    ELSE IF \E i \in 1..Len(args) : args[i].kind # "string" THEN ExecError
    ELSE CASE f = "upper" -> Str([i \in 1..Len(args[1].v) |-> ToUpperChunk(args[1].v[i])])
           [] f = "lower" -> Str([i \in 1..Len(args[1].v) |-> ToLowerChunk(args[1].v[i])])
           [] f = "title" -> Str([i \in 1..Len(args[1].v) |-> TitleChunk(args[1].v[i])])
           [] f = "trim" -> Str(TrimSpace(args[1].v))
           [] f = "contains" -> [kind |-> "bool", v |-> Contains(args[1].v, args[2].v)]
           [] f = "replace" -> Str(ReplaceAll(args[1].v, args[2].v, args[3].v))
           [] f = "safeHTML" -> [kind |-> "html", v |-> args[1].v]
           [] OTHER -> [kind |-> "url", v |-> args[1].v]

EvalAction(words, m) ==
    IF words[1] \notin FuncNames THEN
        IF Len(words) = 1 THEN EvalArg(words[1], m) ELSE ExecError
    ELSE
        LET args == [i \in 1..(Len(words) - 1) |-> EvalArg(words[i + 1], m)] IN
        IF Len(args) # Arity(words[1]) THEN ExecError
        ELSE IF \E i \in 1..Len(args) : args[i].kind = "error" THEN ExecError
        ELSE Apply(words[1], args)

\* the escaper html/template appends to every action in HTML text
EscapeChunk(c) ==
    CASE c = "<" -> "&lt;"
      [] c = ">" -> "&gt;"
      [] c = "&" -> "&amp;"
      [] c = "\"" -> "&#34;"
      [] c = "'" -> "&#39;"
      [] c = "<b>" -> "&lt;b&gt;"
      [] c = "</b>" -> "&lt;/b&gt;"
      [] OTHER -> c

\* variant: no escaper, as with text/template
HTMLEscapeNone(val) ==
    CASE val.kind = "nil" -> <<>>
      [] val.kind = "bool" -> IF val.v THEN <<"true">> ELSE <<"false">>
      [] OTHER -> val.v

HTMLEscape(val) ==
    CASE val.kind = "nil" -> <<>>
      [] val.kind = "html" -> val.v
      [] val.kind = "bool" -> IF val.v THEN <<"true">> ELSE <<"false">>
      [] OTHER -> [i \in 1..Len(val.v) |-> EscapeChunk(val.v[i])]

\* template.Execute: text is copied, every action is evaluated and escaped
RECURSIVE ExecuteFrom(_, _, _, _)
ExecuteFrom(items, i, m, buf) ==
    IF i > Len(items) THEN [ok |-> TRUE, out |-> buf]
    ELSE IF items[i].kind = "text" THEN ExecuteFrom(items, i + 1, m, buf \o items[i].words)
    ELSE LET val == EvalAction(items[i].words, m) IN
         IF val.kind = "error" THEN [ok |-> FALSE, out |-> buf]
         ELSE ExecuteFrom(items, i + 1, m, buf \o HTMLEscape(val))

Execute(items, m) == ExecuteFrom(items, 1, m, <<>>)

\* both return (string, error); "parse" and "exec" name the failing step
renderHTML(templateStr, variables) ==
    IF templateStr = <<>> THEN [out |-> <<>>, err |-> "none"]
    ELSE LET tmpl == Parse(templateStr) IN
         IF ~tmpl.ok THEN [out |-> <<>>, err |-> "parse"]
         ELSE LET res == Execute(tmpl.items, variables) IN
              IF ~res.ok THEN [out |-> <<>>, err |-> "exec"]
              ELSE [out |-> res.out, err |-> "none"]

\* variant: the output is returned without strings.TrimSpace
renderTextNoTrim(templateStr, variables) ==
    IF templateStr = <<>> THEN [out |-> <<>>, err |-> "none"]
    ELSE LET tmpl == Parse(templateStr) IN
         IF ~tmpl.ok THEN [out |-> <<>>, err |-> "parse"]
         ELSE LET res == Execute(tmpl.items, variables) IN
              IF ~res.ok THEN [out |-> <<>>, err |-> "exec"]
              ELSE [out |-> res.out, err |-> "none"]

renderText(templateStr, variables) ==
    IF templateStr = <<>> THEN [out |-> <<>>, err |-> "none"]
    ELSE LET tmpl == Parse(templateStr) IN
         IF ~tmpl.ok THEN [out |-> <<>>, err |-> "parse"]
         ELSE LET res == Execute(tmpl.items, variables) IN
              IF ~res.ok THEN [out |-> <<>>, err |-> "exec"]
              ELSE [out |-> TrimSpace(res.out), err |-> "none"]

NilRendered == [nil |-> TRUE]

Render(tmpl, variables) ==
    LET m == IF variables.isNil THEN <<>> ELSE variables.m
        renderedSubject == renderText(tmpl.Subject, m)
        renderedContent == renderHTML(tmpl.Content, m)
    IN  IF renderedSubject.err # "none" THEN
            [out |-> NilRendered,
             err |-> Wrap(New(InternalCode, renderedSubject.err), InternalCode,
                          "failed to render subject")]
        ELSE IF renderedContent.err # "none" THEN
            [out |-> NilRendered,
             err |-> Wrap(New(InternalCode, renderedContent.err), InternalCode,
                          "failed to render content")]
        ELSE
            [out |-> [Subject |-> renderedSubject.out,
                      Content |-> renderedContent.out,
                      ContentType |-> "text/html"],
             err |-> NoErr]

\* variant: the parse error is dropped
ValidateTemplateAcceptAll(content) == NoErr

ValidateTemplate(content) ==
    IF ~Parse(content).ok THEN
        Wrap(New(InternalCode, "parse"), InvalidArgumentCode, "template syntax error")
    ELSE NoErr

-----------------------------------------------------------------------------
(* adapters.TemplatePostgresRepository over the templates table.            *)
(* The table declares slug UNIQUE; the id comes from a BIGSERIAL sequence,  *)
(* which advances on every INSERT attempt.                                  *)

\* variant: the table without the UNIQUE constraint on slug
RepoCreateNoUnique(rows, idSeq, template) ==
    [err |-> NoErr,
     tmpl |-> [template EXCEPT !.ID = idSeq + 1],
     rows |-> rows \cup {[template EXCEPT !.ID = idSeq + 1]}]

\* Create returns the error, the template with its ID scanned back, and the table
RepoCreate(rows, idSeq, template) ==
    IF \E r \in rows : r.Slug = template.Slug THEN
        [err |-> ErrTemplateAlreadyExists, tmpl |-> template, rows |-> rows]
    ELSE
        [err |-> NoErr,
         tmpl |-> [template EXCEPT !.ID = idSeq + 1],
         rows |-> rows \cup {[template EXCEPT !.ID = idSeq + 1]}]

GetByID(rows, id) ==
    IF \E r \in rows : r.ID = id THEN
        [tmpl |-> CHOOSE r \in rows : r.ID = id, err |-> NoErr]
    ELSE [tmpl |-> NilTemplate, err |-> ErrTemplateNotFound]

GetBySlug(rows, slug) ==
    IF \E r \in rows : r.Slug = slug THEN
        [tmpl |-> CHOOSE r \in rows : r.Slug = slug, err |-> NoErr]
    ELSE [tmpl |-> NilTemplate, err |-> ErrTemplateNotFound]

\* variant: the UPDATE also writes slug and type
RepoUpdateWithSlug(rows, template, clock) ==
    IF ~\E r \in rows : r.ID = template.ID THEN
        [err |-> ErrTemplateNotFound, rows |-> rows]
    ELSE
        [err |-> NoErr,
         rows |-> {IF r.ID = template.ID
                   THEN [r EXCEPT !.Name = template.Name,
                                  !.Slug = template.Slug,
                                  !.Subject = template.Subject,
                                  !.Content = template.Content,
                                  !.Type = template.Type,
                                  !.Status = template.Status,
                                  !.Variables = template.Variables,
                                  !.Description = template.Description,
                                  !.UpdatedAt = clock]
                   ELSE r : r \in rows}]

\* UPDATE ... SET name, subject, content, status, variables, description,
\* updated_at WHERE id = $1; zero rows affected is ErrTemplateNotFound
RepoUpdate(rows, template, clock) ==
    IF ~\E r \in rows : r.ID = template.ID THEN
        [err |-> ErrTemplateNotFound, rows |-> rows]
    ELSE
        [err |-> NoErr,
         rows |-> {IF r.ID = template.ID
                   THEN [r EXCEPT !.Name = template.Name,
                                  !.Subject = template.Subject,
                                  !.Content = template.Content,
                                  !.Status = template.Status,
                                  !.Variables = template.Variables,
                                  !.Description = template.Description,
                                  !.UpdatedAt = clock]
                   ELSE r : r \in rows}]

\* variant: the number of rows affected is not looked at
RepoDeleteNoCheck(rows, id) ==
    [err |-> NoErr, rows |-> {r \in rows : r.ID # id}]

\* DELETE FROM templates WHERE id = $1; zero rows affected is ErrTemplateNotFound
RepoDelete(rows, id) ==
    IF ~\E r \in rows : r.ID = id THEN [err |-> ErrTemplateNotFound, rows |-> rows]
    ELSE [err |-> NoErr, rows |-> {r \in rows : r.ID # id}]

\* pagination.Paging
Fulfill(paging) ==
    [paging EXCEPT !.Page = IF @ <= 0 THEN 1 ELSE @,
                   !.Limit = IF @ <= 0 THEN 10 ELSE @]

GetOffset(paging) == (paging.Page - 1) * paging.Limit

\* a Go pointer to a string or an int64
NilPtr == [isNil |-> TRUE, v |-> ""]
Ptr(v) == [isNil |-> FALSE, v |-> v]

\* the strings of the columns name, description and slug, and of a search,
\* cut into words and separators
Chunks(str) ==
    CASE str = "" -> <<>>
      [] str = "OTP mail" -> <<"OTP", " ", "mail">>
      [] str = "OTP mail 2" -> <<"OTP", " ", "mail", " ", "2">>
      [] str = "mail-verify-mail" -> <<"mail", "-", "verify", "-", "mail">>
      [] OTHER -> <<str>>

ToLowerWord(c) ==
    CASE c = "OTP" -> "otp"
      [] c = "MAIL" -> "mail"
      [] c = "Welcome" -> "welcome"
      [] c = "Renamed" -> "renamed"
      [] c = "Foreign" -> "foreign"
      [] OTHER -> c

\* text LIKE pattern: "%" stands for any run of characters, "_" for one
RECURSIVE Like(_, _)
Like(text, pattern) ==
    IF pattern = <<>> THEN text = <<>>
    ELSE IF Head(pattern) = "%" THEN
        Like(text, Tail(pattern)) \/ (text # <<>> /\ Like(Tail(text), pattern))
    ELSE /\ text # <<>>
         /\ Head(pattern) = "_" \/ Head(pattern) = Head(text)
         /\ Like(Tail(text), Tail(pattern))

\* column ILIKE '%' || search || '%'
ILike(column, search) ==
    Like([i \in DOMAIN Chunks(column) |-> ToLowerWord(Chunks(column)[i])],
         <<"%">> \o [i \in DOMAIN Chunks(search) |-> ToLowerWord(Chunks(search)[i])]
                 \o <<"%">>)

\* variant: the search has to match name, description and slug at once
ListConditionsSearchAll(filters, r) ==
    /\ ~filters.Type.isNil => r.Type = filters.Type.v
    /\ ~filters.Status.isNil => r.Status = filters.Status.v
    /\ ~filters.CreatedBy.isNil => r.CreatedBy = filters.CreatedBy.v
    /\ filters.Search # "" =>
           /\ ILike(r.Name, filters.Search)
           /\ ILike(r.Description, filters.Search)
           /\ ILike(r.Slug, filters.Search)

\* the WHERE clause List builds from domain.ListTemplateFilters
ListConditions(filters, r) ==
    /\ ~filters.Type.isNil => r.Type = filters.Type.v
    /\ ~filters.Status.isNil => r.Status = filters.Status.v
    /\ ~filters.CreatedBy.isNil => r.CreatedBy = filters.CreatedBy.v
    /\ filters.Search # "" =>
           \/ ILike(r.Name, filters.Search)
           \/ ILike(r.Description, filters.Search)
           \/ ILike(r.Slug, filters.Search)

\* SELECT COUNT(*) FROM templates WHERE ...
ListTotal(rows, filters) == Cardinality({r \in rows : ListConditions(filters, r)})

\* the orders ORDER BY created_at DESC may return the rows in: rows created
\* at the same time come in any order
OrderByCreatedAtDesc(rows) ==
    {o \in [1..Cardinality(rows) -> rows] :
        /\ \A i, j \in DOMAIN o : i < j => (o[i] # o[j] /\ o[i].CreatedAt >= o[j].CreatedAt)}

\* ... ORDER BY created_at DESC LIMIT Limit OFFSET GetOffset(), on one order
ListPage(order, paging) ==
    SubSeq(order, GetOffset(paging) + 1,
           IF GetOffset(paging) + paging.Limit < Len(order)
           THEN GetOffset(paging) + paging.Limit ELSE Len(order))

-----------------------------------------------------------------------------
(* Requests.  A request runs one handler; between two accesses to shared    *)
(* state (the table, the OTP store, the event bus) other requests may run.  *)

SlugMailOTP == "mail-verify-mail"

OTPTTL == 5         \* minutes an OTP stays valid

NoCmd == [none |-> TRUE]

\* n numbers the request the worker is serving
Idle == [n |-> 0, op |-> "idle", pc |-> "idle", cmd |-> NoCmd, tmpl |-> NilTemplate,
         err |-> NoErr, res |-> NilRendered, rendererCalled |-> FALSE]

\* template strings the requests carry
SubjectOK == <<" ", "Hi ", "{{", ".Name", "}}">>
SubjectBad == <<"Hi ", "{{", ".Name">>
ContentOTP == <<"<b>", "{{", ".otp", "}}", "</b>">>
ContentOther == <<"Hello ", "{{", "default", "\"User\"", ".Name", "}}">>
ContentBad == <<"<h1>", "{{", ".Name", "</h1>">>

CreateCmd(name, slug, subject, content, type, variables, createdBy) ==
    [Name |-> name, Slug |-> slug, Subject |-> subject, Content |-> content,
     Type |-> type, Variables |-> variables, Description |-> "", CreatedBy |-> createdBy]

UpdateCmd(name, subject, content, variables, description, status) ==
    [Name |-> name, Subject |-> subject, Content |-> content, Variables |-> variables,
     Description |-> description, Status |-> status]

RenderVariables == { NilMap, Map([k \in {"otp"} |-> <<"<", "123456">>]) }

\* a request is accepted by a free worker
Accept(p) == proc[p].pc \in {"idle", "done"} /\ calls < MaxCalls /\ calls' = calls + 1

Done(p, request, err) ==
    proc' = [proc EXCEPT ![p] = [request EXCEPT !.pc = "done", !.err = err]]

-----------------------------------------------------------------------------
(* command.CreateTemplateHandler.Handle *)

\* type check and slug lookup
CreateLookup(p, cmd) ==
    /\ Accept(p)
    /\ seq + Cardinality({q \in Procs : proc[q].pc = "create_insert"}) < MaxSeq
    /\ LET request == [Idle EXCEPT !.n = calls + 1, !.op = "create", !.cmd = cmd] IN
       IF ~IsValidTemplateType(cmd.Type) THEN
           Done(p, request, ErrInvalidTemplateType)
       ELSE IF GetBySlug(store, cmd.Slug).tmpl # NilTemplate THEN
           Done(p, request, ErrTemplateAlreadyExists)
       ELSE
           proc' = [proc EXCEPT ![p] = [request EXCEPT !.pc = "create_insert"]]
    /\ UNCHANGED <<store, seq, now, otpStore, mails, ent, entCall,
                   tempUserStore, users, history, events>>

\* syntax validation, NewTemplate and the INSERT
CreateInsert(p) ==
    /\ proc[p].pc = "create_insert"
    /\ LET cmd == proc[p].cmd
           syntaxErr == ValidateTemplate(cmd.Content)
           made == NewTemplate(cmd.Name, cmd.Slug, cmd.Subject, cmd.Content, cmd.Type,
                               cmd.Variables, cmd.Description, cmd.CreatedBy, now)
           created == RepoCreate(store, seq, made.tmpl)
       IN
       IF syntaxErr # NoErr THEN
           /\ Done(p, proc[p], Wrap(syntaxErr, InvalidArgumentCode,
                                    "template syntax validation failed"))
           /\ UNCHANGED <<store, seq>>
       ELSE IF made.err # NoErr THEN
           /\ Done(p, proc[p], made.err)
           /\ UNCHANGED <<store, seq>>
       ELSE
           /\ store' = created.rows
           /\ seq' = seq + 1
           /\ IF created.err # NoErr THEN
                  Done(p, proc[p], Wrap(created.err, InternalCode, "failed to create template"))
              ELSE
                  Done(p, [proc[p] EXCEPT !.tmpl = created.tmpl], NoErr)
    /\ UNCHANGED <<now, otpStore, mails, calls, ent, entCall,
                   tempUserStore, users, history, events>>

-----------------------------------------------------------------------------
(* command.UpdateTemplateHandler.Handle *)

UpdateLoad(p, id, body) ==
    /\ Accept(p)
    /\ LET request == [Idle EXCEPT !.n = calls + 1, !.op = "update",
                                   !.cmd = [ID |-> id, Name |-> body.Name,
                                            Subject |-> body.Subject,
                                            Content |-> body.Content,
                                            Variables |-> body.Variables,
                                            Description |-> body.Description,
                                            Status |-> body.Status]]
           found == GetByID(store, id)
       IN
       IF found.err # NoErr THEN Done(p, request, ErrTemplateNotFound)
       ELSE proc' = [proc EXCEPT ![p] = [request EXCEPT !.pc = "update_save",
                                                        !.tmpl = found.tmpl]]
    /\ UNCHANGED <<store, seq, now, otpStore, mails, ent, entCall,
                   tempUserStore, users, history, events>>

\* variant: a status outside the switch is assigned as it comes
ApplyStatusAssign(t, status, clock) ==
    CASE status = "" -> t
      [] status = TemplateStatusActive -> Activate(t, clock)
      [] status = TemplateStatusInactive -> Deactivate(t, clock)
      [] OTHER -> [t EXCEPT !.Status = status]

\* the status switch of the handler; the template is nil for an unknown status
ApplyStatus(t, status, clock) ==
    CASE status = "" -> t
      [] status = TemplateStatusActive -> Activate(t, clock)
      [] status = TemplateStatusInactive -> Deactivate(t, clock)
      [] status = TemplateStatusDraft -> [t EXCEPT !.Status = TemplateStatusDraft]
      [] OTHER -> NilTemplate

UpdateSave(p) ==
    /\ proc[p].pc = "update_save"
    /\ LET cmd == proc[p].cmd
           updated == Update(proc[p].tmpl, cmd.Name, cmd.Subject, cmd.Content,
                             cmd.Description, cmd.Variables, now)
           final == ApplyStatus(updated, cmd.Status, now)
           saved == RepoUpdate(store, final, now)
       IN
       IF cmd.Content # <<>> /\ ValidateTemplate(cmd.Content) # NoErr THEN
           /\ Done(p, proc[p], Wrap(ValidateTemplate(cmd.Content), InvalidArgumentCode,
                                    "template syntax validation failed"))
           /\ UNCHANGED store
       ELSE IF final = NilTemplate THEN
           /\ Done(p, [proc[p] EXCEPT !.tmpl = updated], ErrInvalidTemplateStatus)
           /\ UNCHANGED store
       ELSE
           /\ store' = saved.rows
           /\ Done(p, [proc[p] EXCEPT !.tmpl = [final EXCEPT !.UpdatedAt = now]],
                   IF saved.err # NoErr
                   THEN Wrap(saved.err, InternalCode, "failed to update template")
                   ELSE NoErr)
    /\ UNCHANGED <<seq, now, otpStore, mails, calls, ent, entCall,
                   tempUserStore, users, history, events>>

-----------------------------------------------------------------------------
(* query.RenderTemplateHandler.Handle; by is "id", "slug" or "none" *)

RenderHandle(p, query) ==
    /\ Accept(p)
    /\ LET request == [Idle EXCEPT !.n = calls + 1, !.op = "render", !.cmd = query]
           found == IF query.by = "id" THEN GetByID(store, query.id)
                    ELSE GetBySlug(store, query.slug)
           rendered == Render(found.tmpl, query.Variables)
       IN
       IF query.by = "none" THEN
           Done(p, request, New(InvalidArgumentCode,
                                "either template_id or template_slug must be provided"))
       ELSE IF found.err # NoErr THEN
           Done(p, request, ErrTemplateNotFound)
       ELSE IF ~IsActive(found.tmpl) THEN
           Done(p, [request EXCEPT !.tmpl = found.tmpl], ErrTemplateInactive)
       ELSE IF rendered.err # NoErr THEN
           Done(p, [request EXCEPT !.tmpl = found.tmpl, !.rendererCalled = TRUE],
                Wrap(rendered.err, InternalCode, "failed to render template"))
       ELSE
           Done(p, [request EXCEPT !.tmpl = found.tmpl, !.rendererCalled = TRUE,
                                   !.res = rendered.out], NoErr)
    /\ UNCHANGED <<store, seq, now, otpStore, mails, ent, entCall,
                   tempUserStore, users, history, events>>

-----------------------------------------------------------------------------
(* ports.DeleteTemplate: the HTTP handler calls the repository's Delete *)

DeleteTemplate(p, id) ==
    /\ Accept(p)
    /\ store' = RepoDelete(store, id).rows
    /\ Done(p, [Idle EXCEPT !.n = calls + 1, !.op = "delete", !.cmd = [ID |-> id]], RepoDelete(store, id).err)
    /\ UNCHANGED <<seq, now, otpStore, mails, ent, entCall, tempUserStore, users, history, events>>

-----------------------------------------------------------------------------
(* A caller of TemplateRepository.Update that passes its own Template value *)

ForeignTemplate(id) ==
    [ID |-> id, Name |-> "Foreign", Slug |-> "hijacked", Subject |-> <<>>,
     Content |-> ContentOther, Type |-> TemplateTypeSMS, Status |-> TemplateStatusInactive,
     Variables |-> NilSlice, Description |-> "", CreatedBy |-> 9,
     CreatedAt |-> MaxTime + 1, UpdatedAt |-> MaxTime + 1]

RepositoryUpdate(p, id) ==
    /\ Accept(p)
    /\ store' = RepoUpdate(store, ForeignTemplate(id), now).rows
    /\ Done(p, [Idle EXCEPT !.n = calls + 1, !.op = "repo_update", !.cmd = [ID |-> id],
                            !.tmpl = [ForeignTemplate(id) EXCEPT !.UpdatedAt = now]],
            RepoUpdate(store, ForeignTemplate(id), now).err)
    /\ UNCHANGED <<seq, now, otpStore, mails, ent, entCall, tempUserStore, users, history, events>>

-----------------------------------------------------------------------------
(* command.sendOTPVerifyMailHandler.Handle *)

\* generateOTP and InMemoryOTPStore.Store
SendOTPStore(p, mail, otp) ==
    /\ Accept(p)
    /\ otpStore' = [e \in DOMAIN otpStore \cup {mail} |->
                       IF e = mail THEN [OTP |-> otp, ExpiresAt |-> now + OTPTTL]
                       ELSE otpStore[e]]
    /\ proc' = [proc EXCEPT ![p] = [Idle EXCEPT !.n = calls + 1, !.op = "send_otp", !.pc = "otp_publish",
                                                !.cmd = [Mail |-> mail, otp |-> otp]]]
    /\ UNCHANGED <<store, seq, now, mails, ent, entCall, tempUserStore, users, history, events>>

\* template lookup, Render and PublishEvent
SendOTPPublish(p) ==
    /\ proc[p].pc = "otp_publish"
    /\ LET cmd == proc[p].cmd
           found == GetBySlug(store, SlugMailOTP)
           rendered == Render(found.tmpl, Map([k \in {"otp"} |-> <<cmd.otp>>]))
       IN
       IF found.err # NoErr THEN
           /\ Done(p, proc[p], Wrap(found.err, InternalCode, "failed to get template"))
           /\ UNCHANGED mails
       ELSE IF rendered.err # NoErr THEN
           /\ Done(p, [proc[p] EXCEPT !.tmpl = found.tmpl, !.rendererCalled = TRUE],
                   Wrap(rendered.err, InternalCode, "failed to render template"))
           /\ UNCHANGED mails
       ELSE
           /\ mails' = Append(mails, [ToMail |-> cmd.Mail,
                                      Subject |-> rendered.out.Subject,
                                      HTMLBody |-> rendered.out.Content])
           /\ Done(p, [proc[p] EXCEPT !.tmpl = found.tmpl, !.rendererCalled = TRUE,
                                      !.res = rendered.out], NoErr)
    /\ UNCHANGED <<store, seq, now, otpStore, calls, ent, entCall,
                   tempUserStore, users, history, events>>

-----------------------------------------------------------------------------
(* ports.ListTemplates and query.ListTemplatesHandler.Handle *)

FilterTemplatesQuery(type, status, createdBy, search) ==
    [Type |-> type, Status |-> status, CreatedBy |-> createdBy, Search |-> search]

ListFilters ==
    { FilterTemplatesQuery(NilPtr, NilPtr, NilPtr, ""),
      FilterTemplatesQuery(Ptr("email"), Ptr("active"), Ptr(1), "MAIL"),
      FilterTemplatesQuery(Ptr(""), Ptr("draft"), NilPtr, "welcome"),
      FilterTemplatesQuery(NilPtr, Ptr(""), Ptr(2), "zzz"),
      FilterTemplatesQuery(Ptr("fax"), NilPtr, NilPtr, ""),
      FilterTemplatesQuery(NilPtr, Ptr("archived"), NilPtr, "") }

\* the handler's domain.ListTemplateFilters: an empty type or status is no filter
DomainFilters(filters) ==
    [Type |-> IF ~filters.Type.isNil /\ filters.Type.v # "" THEN filters.Type ELSE NilPtr,
     Status |-> IF ~filters.Status.isNil /\ filters.Status.v # "" THEN filters.Status ELSE NilPtr,
     CreatedBy |-> filters.CreatedBy,
     Search |-> filters.Search]

\* time.Format("2006-01-02T15:04:05Z")
FormatTime(t) == [layout |-> "2006-01-02T15:04:05Z", at |-> t]

TemplateListItem(template) ==
    [ID |-> template.ID, Name |-> template.Name, Slug |-> template.Slug,
     Subject |-> template.Subject, Type |-> template.Type, Status |-> template.Status,
     Description |-> template.Description, CreatedBy |-> template.CreatedBy,
     CreatedAt |-> FormatTime(template.CreatedAt),
     UpdatedAt |-> FormatTime(template.UpdatedAt)]

\* paging defaults, the filter checks and the count query
ListCount(p, filters, paging) ==
    /\ Accept(p)
    /\ LET request == [Idle EXCEPT !.n = calls + 1, !.op = "list",
                                   !.cmd = [filters |-> filters, paging |-> paging]]
           domainFilters == DomainFilters(filters)
       IN
       IF ~domainFilters.Type.isNil /\ ~IsValidTemplateType(domainFilters.Type.v) THEN
           Done(p, request, ErrInvalidTemplateType)
       ELSE IF /\ ~domainFilters.Status.isNil
               /\ domainFilters.Status.v \notin {TemplateStatusActive, TemplateStatusInactive,
                                                 TemplateStatusDraft} THEN
           Done(p, request, ErrInvalidTemplateStatus)
       ELSE
           proc' = [proc EXCEPT ![p] =
                       [request EXCEPT !.pc = "list_select",
                                       !.res = [Templates |-> <<>>,
                                                Paging |-> [Fulfill(paging) EXCEPT
                                                    !.Total = ListTotal(store, domainFilters)]]]]
    /\ UNCHANGED <<store, seq, now, otpStore, mails, ent, entCall,
                   tempUserStore, users, history, events>>

\* the main query and the conversion to list items
ListSelect(p) ==
    /\ proc[p].pc = "list_select"
    /\ \E order \in OrderByCreatedAtDesc({r \in store :
                        ListConditions(DomainFilters(proc[p].cmd.filters), r)}) :
           LET templates == ListPage(order, proc[p].res.Paging) IN
           Done(p, [proc[p] EXCEPT !.res.Templates =
                       [i \in DOMAIN templates |-> TemplateListItem(templates[i])]],
                NoErr)
    /\ UNCHANGED <<store, seq, now, otpStore, mails, calls, ent, entCall,
                   tempUserStore, users, history, events>>

-----------------------------------------------------------------------------

Tick ==
    /\ now < MaxTime
    /\ now' = now + 1
    /\ UNCHANGED <<store, seq, otpStore, mails, proc, calls, ent, entCall,
                   tempUserStore, users, history, events>>

Init ==
    /\ store = {}
    /\ seq = 0
    /\ now = 0
    /\ otpStore = [e \in {} |-> NoCmd]
    /\ tempUserStore = [e \in {} |-> NoCmd]
    /\ users = [rows |-> {}, idSeq |-> 0]
    /\ history = <<>>
    /\ events = <<>>
    /\ mails = <<>>
    /\ proc = [p \in Procs |-> Idle]
    /\ calls = 0
    /\ ent = NilTemplate
    /\ entCall = [op |-> "none"]

Next ==
    \/ \E p \in Procs,
          cmd \in { CreateCmd("OTP mail", SlugMailOTP, SubjectOK, ContentOTP, "email",
                              Slice(<<"otp">>), 1),
                    CreateCmd("OTP mail 2", SlugMailOTP, SubjectBad, ContentOther, "sms",
                              NilSlice, 2),
                    CreateCmd("Welcome", "welcome", <<>>, ContentOther, "push", NilSlice, 1),
                    CreateCmd("Welcome", "welcome", <<>>, ContentBad, "email", NilSlice, 1),
                    CreateCmd("Welcome", "welcome", <<>>, ContentOther, "fax", NilSlice, 1),
                    CreateCmd("", "welcome", <<>>, ContentOther, "email", NilSlice, 1) } :
           CreateLookup(p, cmd)
    \/ \E p \in Procs : CreateInsert(p)
    \/ \E p \in Procs, id \in 1..MaxSeq,
          body \in { UpdateCmd("", <<>>, <<>>, NilSlice, "", "active"),
                     UpdateCmd("Renamed", <<>>, <<>>, NilSlice, "", "inactive"),
                     UpdateCmd("", <<>>, <<>>, NilSlice, "", "draft"),
                     UpdateCmd("Renamed", <<>>, <<>>, NilSlice, "", "archived"),
                     UpdateCmd("", <<>>, ContentBad, NilSlice, "", ""),
                     UpdateCmd("Renamed", <<>>, ContentBad, NilSlice, "", "archived"),
                     UpdateCmd("", SubjectBad, <<>>, NilSlice, "", ""),
                     UpdateCmd("", <<>>, ContentOther, Slice(<<>>), "changed", "") } :
           UpdateLoad(p, id, body)
    \/ \E p \in Procs : UpdateSave(p)
    \/ \E p \in Procs,
          query \in [by : {"id"}, id : 1..MaxSeq, slug : {""}, Variables : RenderVariables]
                    \cup [by : {"slug"}, id : {0}, slug : {SlugMailOTP},
                          Variables : RenderVariables]
                    \cup [by : {"none"}, id : {0}, slug : {""}, Variables : {NilMap}] :
           RenderHandle(p, query)
    \/ \E p \in Procs, id \in 1..MaxSeq : DeleteTemplate(p, id)
    \/ \E p \in Procs, id \in 1..MaxSeq : RepositoryUpdate(p, id)
    \/ \E p \in Procs, mail \in {"a@tixgo.com"}, otp \in {"100000", "999999"} :
           SendOTPStore(p, mail, otp)
    \/ \E p \in Procs : SendOTPPublish(p)
    \/ Tick

Spec == Init /\ [][Next]_vars

-----------------------------------------------------------------------------
(* Listing: list requests over a table that holds some of three templates,  *)
(* while delete requests take rows away.                                    *)

StoredRow(id, name, slug, type, status, description, createdBy, createdAt) ==
    [ID |-> id, Name |-> name, Slug |-> slug, Subject |-> <<>>, Content |-> ContentOther,
     Type |-> type, Status |-> status, Variables |-> NilSlice, Description |-> description,
     CreatedBy |-> createdBy, CreatedAt |-> createdAt, UpdatedAt |-> createdAt]

\* the second and the third row were created at the same time
InitList ==
    /\ store \in SUBSET { StoredRow(1, "OTP mail", SlugMailOTP, "email", "active", "", 1, 0),
                          StoredRow(2, "Welcome", "welcome", "push", "draft", "changed", 1, 1),
                          StoredRow(3, "Renamed", "promo", "email", "draft", "Welcome", 2, 1) }
    /\ seq = 3
    /\ now = 1
    /\ otpStore = [e \in {} |-> NoCmd]
    /\ tempUserStore = [e \in {} |-> NoCmd]
    /\ users = [rows |-> {}, idSeq |-> 0]
    /\ history = <<>>
    /\ events = <<>>
    /\ mails = <<>>
    /\ proc = [p \in Procs |-> Idle]
    /\ calls = 0
    /\ ent = NilTemplate
    /\ entCall = [op |-> "none"]

NextList ==
    \/ \E p \in Procs, filters \in ListFilters,
          paging \in { [Page |-> 1, Limit |-> 1, Total |-> 0],
                       [Page |-> 2, Limit |-> 1, Total |-> 7],
                       [Page |-> 0, Limit |-> 0, Total |-> 0] } :
           ListCount(p, filters, paging)
    \/ \E p \in Procs : ListSelect(p)
    \/ \E p \in Procs, id \in (1..MaxSeq) : DeleteTemplate(p, id)

SpecList == InitList /\ [][NextList]_vars

-----------------------------------------------------------------------------
(* The domain package on its own: a caller builds a Template with           *)
(* NewTemplate and then calls its methods in any order.                     *)

EntNewTemplate(a) ==
    /\ LET made == NewTemplate(a.name, a.slug, a.subject, a.content, a.templateType,
                               a.variables, a.description, a.createdBy, now)
       IN /\ ent' = made.tmpl
          /\ entCall' = [op |-> "NewTemplate", args |-> a, pre |-> NilTemplate,
                         err |-> made.err, at |-> now]
    /\ UNCHANGED <<store, seq, now, otpStore, mails, proc, calls,
                   tempUserStore, users, history, events>>

EntActivate ==
    /\ ent # NilTemplate
    /\ ent' = Activate(ent, now)
    /\ entCall' = [op |-> "Activate", pre |-> ent, at |-> now]
    /\ UNCHANGED <<store, seq, now, otpStore, mails, proc, calls,
                   tempUserStore, users, history, events>>

EntDeactivate ==
    /\ ent # NilTemplate
    /\ ent' = Deactivate(ent, now)
    /\ entCall' = [op |-> "Deactivate", pre |-> ent, at |-> now]
    /\ UNCHANGED <<store, seq, now, otpStore, mails, proc, calls,
                   tempUserStore, users, history, events>>

EntUpdate(a) ==
    /\ ent # NilTemplate
    /\ ent' = Update(ent, a.name, a.subject, a.content, a.description, a.variables, now)
    /\ entCall' = [op |-> "Update", args |-> a, pre |-> ent, at |-> now]
    /\ UNCHANGED <<store, seq, now, otpStore, mails, proc, calls,
                   tempUserStore, users, history, events>>

NextEntity ==
    \/ \E a \in [name : {"", "A"}, slug : {"", "s"}, subject : {<<>>, SubjectOK},
                 content : {<<>>, ContentOTP},
                 templateType : {TemplateTypeEmail, TemplateTypeSMS, TemplateTypePush, "fax"},
                 variables : {NilSlice, Slice(<<"otp">>)}, description : {"d"},
                 createdBy : {1}] :
           EntNewTemplate(a)
    \/ EntActivate
    \/ EntDeactivate
    \/ \E a \in [name : {"", "B"}, subject : {<<>>, SubjectBad}, content : {<<>>, ContentOther},
                 description : {"", "e"}, variables : {NilSlice, Slice(<<>>)}] : EntUpdate(a)
    \/ Tick

SpecEntity == Init /\ [][NextEntity]_vars

-----------------------------------------------------------------------------
(* The renderer on its own: a caller holds a Template and calls Render on   *)
(* it with a variable map.                                                  *)

MaxWords == 3       \* words inside one action

RECURSIVE WordSeqs(_)
WordSeqs(n) ==
    IF n = 0 THEN {<<>>}
    ELSE WordSeqs(n - 1) \cup
         {Append(ws, w) : ws \in {x \in WordSeqs(n - 1) : Len(x) = n - 1},
                          w \in {".Name", "\"User\"", "default", "trim", "safeHTML"}}

\* text, one action (closed or left open), text
RenderStrings ==
    {<<>>} \cup
    { pre \o <<"{{">> \o ws \o close \o post :
        pre \in {<<>>, <<" ", "<p>">>},
        ws \in WordSeqs(MaxWords) \ {<<>>},
        close \in {<<"}}">>, <<>>},
        post \in {<<>>, <<"</p>", " ">>} }

RenderTemplate(subject, content) ==
    [ID |-> 1, Name |-> "T", Slug |-> "t", Subject |-> subject, Content |-> content,
     Type |-> TemplateTypeEmail, Status |-> TemplateStatusActive, Variables |-> NilSlice,
     Description |-> "", CreatedBy |-> 1, CreatedAt |-> 0, UpdatedAt |-> 0]

EntRender(variables) ==
    /\ entCall.op = "none"
    /\ entCall' = [op |-> "Render", variables |-> variables,
                   out |-> Render(ent, variables).out, err |-> Render(ent, variables).err]
    /\ UNCHANGED <<store, seq, now, otpStore, mails, proc, calls, ent,
                   tempUserStore, users, history, events>>

InitRender ==
    /\ store = {}
    /\ seq = 0
    /\ now = 0
    /\ otpStore = [e \in {} |-> NoCmd]
    /\ tempUserStore = [e \in {} |-> NoCmd]
    /\ users = [rows |-> {}, idSeq |-> 0]
    /\ history = <<>>
    /\ events = <<>>
    /\ mails = <<>>
    /\ proc = [p \in Procs |-> Idle]
    /\ calls = 0
    /\ ent \in ({RenderTemplate(s, s) : s \in RenderStrings}
                \cup {RenderTemplate(<<>>, s) : s \in RenderStrings}
                \cup {RenderTemplate(s, <<>>) : s \in RenderStrings})
    /\ entCall = [op |-> "none"]

NextRender ==
    \E variables \in {NilMap, Map(<<>>)} \cup
                      {Map([k \in {"Name"} |-> v]) :
                          v \in { <<>>, <<"Ann">>, <<" ", "Ann", " ">>, <<"<b>", "hi", "</b>">>,
                                  <<"<", "&", ">", "\"", "'">> }} :
        EntRender(variables)

SpecRender == InitRender /\ [][NextRender]_vars

-----------------------------------------------------------------------------
(* Properties *)

\* request p takes a step
Acts(p) == proc'[p] # proc[p]

Finished(p, op) == proc[p].op = op /\ proc[p].pc = "done"

\* C1: RenderTemplateHandler returns rendered output only for a looked-up
\* template in status active; for a looked-up template in status draft or
\* inactive it returns ErrTemplateInactive (Forbidden) without calling the
\* renderer.
C1_RenderOnlyWhenActive ==
    \A p \in Procs :
        Finished(p, "render") =>
            /\ proc[p].res # NilRendered =>
                   /\ proc[p].tmpl # NilTemplate
                   /\ proc[p].tmpl.Status = TemplateStatusActive
                   /\ proc[p].err = NoErr
            /\ proc[p].rendererCalled =>
                   /\ proc[p].tmpl # NilTemplate
                   /\ proc[p].tmpl.Status = TemplateStatusActive
            /\ (proc[p].tmpl # NilTemplate /\ proc[p].tmpl.Status # TemplateStatusActive) =>
                   /\ proc[p].err = ErrTemplateInactive
                   /\ Code(proc[p].err) = ForbiddenCode
                   /\ proc[p].res = NilRendered

\* a render request refused for a template that an update made inactive
C1_Witness ==
    \E p \in Procs :
        /\ Finished(p, "render")
        /\ proc[p].tmpl # NilTemplate
        /\ proc[p].tmpl.Status = TemplateStatusInactive
        /\ proc[p].err = ErrTemplateInactive

\* C2: every application-layer caller that renders a stored template calls
\* Render only for a template in status active, so no mail event is published
\* from a draft or inactive template.
C2_EveryCallerChecksActive ==
    \A p \in Procs :
        (proc[p].op \in {"render", "send_otp"} /\ proc[p].rendererCalled) =>
            proc[p].tmpl.Status = TemplateStatusActive

\* C3: no two stored templates share a slug, and a create that meets an
\* existing slug fails and leaves the table as it was.
C3_SlugUnique == \A r1, r2 \in store : r1.Slug = r2.Slug => r1 = r2

C3_DuplicateCreateFails ==
    \A p \in Procs :
        (/\ Acts(p)
         /\ proc'[p].op = "create"
         /\ proc'[p].pc = "done"
         /\ \E r \in store : r.Slug = proc'[p].cmd.Slug)
        => /\ store' = store
           /\ proc'[p].err # NoErr

C3_SlugUniqueAlways == []C3_SlugUnique /\ [][C3_DuplicateCreateFails]_vars

\* two templates stored, and a create turned down for a slug already stored
C3_Witness ==
    /\ Cardinality(store) = 2
    /\ \E p \in Procs :
           /\ Finished(p, "create")
           /\ proc[p].err # NoErr
           /\ \E r \in store : r.Slug = proc[p].cmd.Slug /\ r.Name # proc[p].cmd.Name

\* C4: when two creations with the same slug race, the loser is reported to
\* its caller as the Conflict-kind error ErrTemplateAlreadyExists.
C4_RaceLoserGetsConflict ==
    \A p \in Procs :
        (/\ Finished(p, "create")
         /\ \E i \in DOMAIN proc[p].err : proc[p].err[i] = ErrTemplateAlreadyExists[1])
        => /\ proc[p].err = ErrTemplateAlreadyExists
           /\ Code(proc[p].err) = "conflict"

\* C5: NewTemplate fails with InvalidArgument, returning no template, exactly
\* when name, slug or content is empty or the type is not email, sms or push;
\* otherwise it returns a draft template whose fields are the arguments and
\* whose createdAt equals updatedAt.
C5_NewTemplateValidation ==
    entCall.op = "NewTemplate" =>
        LET a == entCall.args
            invalid == \/ a.name = ""
                       \/ a.slug = ""
                       \/ a.content = <<>>
                       \/ a.templateType \notin {"email", "sms", "push"}
        IN  IF invalid THEN
                /\ ent = NilTemplate
                /\ entCall.err # NoErr
                /\ Code(entCall.err) = InvalidArgumentCode
            ELSE
                /\ entCall.err = NoErr
                /\ ent # NilTemplate
                /\ ent.Status = "draft"
                /\ ent.Name = a.name
                /\ ent.Slug = a.slug
                /\ ent.Subject = a.subject
                /\ ent.Content = a.content
                /\ ent.Type = a.templateType
                /\ ent.Variables = a.variables
                /\ ent.Description = a.description
                /\ ent.CreatedBy = a.createdBy
                /\ ent.CreatedAt = ent.UpdatedAt
                /\ ent.CreatedAt = entCall.at

\* NewTemplate turned down an empty slug given with a valid name, content and type
C5_Witness ==
    /\ entCall.op = "NewTemplate"
    /\ entCall.args.slug = ""
    /\ entCall.args.name # ""
    /\ entCall.args.content # <<>>
    /\ entCall.args.templateType = "sms"
    /\ ent = NilTemplate
    /\ now > 0

\* C6: when ValidateTemplate rejects the content, the create and update
\* handlers return an InvalidArgument error and leave the table as it was;
\* the content of every stored template parses.
C6_StoredContentParses == \A r \in store : Parse(r.Content).ok

C6_RejectedContentNotPersisted ==
    \A p \in Procs :
        (/\ Acts(p)
         /\ proc[p].pc \in {"create_insert", "update_save"}
         /\ ~Parse(proc[p].cmd.Content).ok)
        => /\ proc'[p].pc = "done"
           /\ proc'[p].err # NoErr
           /\ Code(proc'[p].err) = InvalidArgumentCode
           /\ store' = store

C6_InvalidContentRejected ==
    []C6_StoredContentParses /\ [][C6_RejectedContentNotPersisted]_vars

\* an update of a stored template was turned down for its content
C6_Witness ==
    \E p \in Procs :
        /\ Finished(p, "update")
        /\ proc[p].tmpl # NilTemplate
        /\ ~Parse(proc[p].cmd.Content).ok
        /\ Code(proc[p].err) = InvalidArgumentCode
        /\ store # {}

\* C7: for a template persisted through the create or update handler, a later
\* Render never fails because a template string (subject or content) does not
\* parse.
C7_RenderNeverFailsToParse ==
    \A p \in Procs :
        (Finished(p, "render") /\ proc[p].rendererCalled) =>
            ~\E i \in DOMAIN proc[p].err : proc[p].err[i].msg = "parse"

\* C8: Template.Update overwrites a string field only for a non-empty argument
\* and variables only for a non-nil argument, keeps every other field, always
\* refreshes updatedAt, and never empties a non-empty subject.
C8_UpdateOverwritesOnlySupplied ==
    entCall.op = "Update" =>
        LET a == entCall.args
            pre == entCall.pre
        IN  /\ ent.Name = (IF a.name = "" THEN pre.Name ELSE a.name)
            /\ ent.Subject = (IF a.subject = <<>> THEN pre.Subject ELSE a.subject)
            /\ ent.Content = (IF a.content = <<>> THEN pre.Content ELSE a.content)
            /\ ent.Description = (IF a.description = "" THEN pre.Description ELSE a.description)
            /\ ent.Variables = (IF a.variables.isNil THEN pre.Variables ELSE a.variables)
            /\ ent.Status = pre.Status
            /\ ent.Slug = pre.Slug
            /\ ent.Type = pre.Type
            /\ ent.ID = pre.ID
            /\ ent.CreatedBy = pre.CreatedBy
            /\ ent.CreatedAt = pre.CreatedAt
            /\ ent.UpdatedAt = entCall.at
            /\ pre.Subject # <<>> => ent.Subject # <<>>

\* Update called with an empty subject on a template that has a subject
C8_Witness ==
    /\ entCall.op = "Update"
    /\ entCall.args.subject = <<>>
    /\ entCall.args.name # ""
    /\ entCall.pre.Subject # <<>>
    /\ ent.Subject = entCall.pre.Subject
    /\ ent.UpdatedAt > entCall.pre.UpdatedAt

\* C9: the stored row of an id keeps the slug, type, createdBy and createdAt
\* it was created with, whatever updates are applied to it.
C9_RowKeepsIdentity ==
    \A r \in store : \A r2 \in store' :
        r2.ID = r.ID =>
            /\ r2.Slug = r.Slug
            /\ r2.Type = r.Type
            /\ r2.CreatedBy = r.CreatedBy
            /\ r2.CreatedAt = r.CreatedAt

C9_IdentityFixedAtCreation == [][C9_RowKeepsIdentity]_vars

\* a row overwritten through the repository's Update by a caller whose
\* template carries another slug, type and creator
C9_Witness ==
    \E r \in store :
        /\ r.Name = "Foreign"
        /\ r.Slug # "hijacked"
        /\ r.CreatedBy # 9
        /\ r.UpdatedAt > r.CreatedAt

\* C10: Activate sets status active and Deactivate sets status inactive from
\* any status, changing nothing but status and updatedAt; both stay callable
\* on every template, so neither status is terminal.
C10_ActivateDeactivate ==
    /\ entCall.op = "Activate" =>
           ent = [entCall.pre EXCEPT !.Status = "active", !.UpdatedAt = entCall.at]
    /\ entCall.op = "Deactivate" =>
           ent = [entCall.pre EXCEPT !.Status = "inactive", !.UpdatedAt = entCall.at]
    /\ ent # NilTemplate => (ENABLED EntActivate /\ ENABLED EntDeactivate)

\* a template deactivated out of status active, after it had been activated
C10_Witness ==
    /\ entCall.op = "Deactivate"
    /\ entCall.pre.Status = "active"
    /\ ent.Status = "inactive"

\* C11: the stored status of every template is draft, active or inactive and
\* changes only when a repository Update succeeds; an update command whose
\* status is non-empty and none of the three persists nothing and fails with
\* an InvalidArgument error, which is ErrInvalidTemplateStatus unless the
\* command's content was turned down by ValidateTemplate first.
C11_StatusValid ==
    \A r \in store : r.Status \in {"draft", "active", "inactive"}

C11_StatusChangesBySave ==
    \A r \in store : \A r2 \in store' :
        (r2.ID = r.ID /\ r2.Status # r.Status) =>
            \E p \in Procs :
                /\ Acts(p)
                /\ proc'[p].op \in {"update", "repo_update"}
                /\ proc'[p].pc = "done"
                /\ proc'[p].err = NoErr
                /\ proc'[p].cmd.ID = r.ID
                /\ proc'[p].tmpl.Status = r2.Status

C11_InvalidStatusPersistsNothing ==
    \A p \in Procs :
        (/\ Acts(p)
         /\ proc'[p].op = "update"
         /\ proc'[p].cmd.Status \notin {"", "draft", "active", "inactive"})
        => /\ store' = store
           /\ proc[p].pc = "update_save" =>
                  /\ proc'[p].pc = "done"
                  /\ proc'[p].err # NoErr
                  /\ Code(proc'[p].err) = InvalidArgumentCode
                  /\ Parse(proc'[p].cmd.Content).ok =>
                         proc'[p].err = New(InvalidArgumentCode, "invalid template status")

-----------------------------------------------------------------------------
(* Properties of Render.  The templates of SpecRender hold at most one      *)
(* action; what a template is expected to render to is written down here    *)
(* from the text around the action and the text the action stands for.      *)

Rendered == entCall.op = "Render"

\* the lexical items of a template string and the words of its action
ItemsOf(templateStr) == Parse(templateStr).items

ActionsOf(templateStr) ==
    {ItemsOf(templateStr)[i].words :
        i \in {j \in DOMAIN ItemsOf(templateStr) : ItemsOf(templateStr)[j].kind = "action"}}

\* the text of the template with `shown` in the place of every action
RECURSIVE ExpectedFrom(_, _, _)
ExpectedFrom(items, i, shown) ==
    IF i > Len(items) THEN <<>>
    ELSE (IF items[i].kind = "text" THEN items[i].words ELSE shown)
         \o ExpectedFrom(items, i + 1, shown)

Expected(templateStr, shown) == ExpectedFrom(ItemsOf(templateStr), 1, shown)

NoKeys(variables) == variables.isNil \/ DOMAIN variables.m = {}

Operands == {".Name", "\"User\""}

\* an action that calls a function calls it with the operands it declares
WellFormedAction(words) ==
    \/ Len(words) = 1 /\ words[1] \in Operands
    \/ /\ words[1] \in {"default", "trim", "safeHTML"}
       /\ Len(words) = (IF words[1] = "default" THEN 3 ELSE 2)
       /\ \A i \in 2..Len(words) : words[i] \in Operands

\* C12: Render treats a nil variable map as an empty map and an absent key
\* renders as the empty string: for every template whose strings parse and
\* whose actions only read top-level keys, Render with a nil or empty map
\* succeeds without error.
C12_NilOrEmptyMapSucceeds ==
    (/\ Rendered
     /\ NoKeys(entCall.variables)
     /\ Parse(ent.Subject).ok
     /\ Parse(ent.Content).ok
     /\ \A words \in ActionsOf(ent.Subject) \cup ActionsOf(ent.Content) : WellFormedAction(words))
    => entCall.err = NoErr

HasName == ~entCall.variables.isNil /\ "Name" \in DOMAIN entCall.variables.m

\* the characters HTML gives a meaning to, as they stand in the values
RawSpecial == {"<", ">", "&", "\"", "'", "<b>", "</b>"}

\* no value of the map holds such a character
PlainValues ==
    HasName => \A i \in DOMAIN entCall.variables.m["Name"] :
                   entCall.variables.m["Name"][i] \notin RawSpecial

\* the escaped form of a value, chunk by chunk
EscapedForm(v) ==
    [i \in DOMAIN v |->
        CASE v[i] = "<" -> "&lt;"
          [] v[i] = ">" -> "&gt;"
          [] v[i] = "&" -> "&amp;"
          [] v[i] = "\"" -> "&#34;"
          [] v[i] = "'" -> "&#39;"
          [] v[i] = "<b>" -> "&lt;b&gt;"
          [] v[i] = "</b>" -> "&lt;/b&gt;"
          [] OTHER -> v[i]]

\* C13: content rendering HTML-escapes every interpolated value: <p>{{.Name}}</p>
\* with Name = "<b>hi</b>" gives <p>&lt;b&gt;hi&lt;/b&gt;</p>, no special
\* character of a value reaches the content raw unless the action passes the
\* value through safeHTML, and safeHTML emits the value as it is.
C13_ContentIsEscaped ==
    (Rendered /\ entCall.err = NoErr) =>
        /\ (\A words \in ActionsOf(ent.Content) : words[1] # "safeHTML") =>
               \A i \in DOMAIN entCall.out.Content : entCall.out.Content[i] \notin RawSpecial
        /\ (HasName /\ <<".Name">> \in ActionsOf(ent.Content)) =>
               entCall.out.Content =
                   Expected(ent.Content, EscapedForm(entCall.variables.m["Name"]))
        /\ (HasName /\ <<"safeHTML", ".Name">> \in ActionsOf(ent.Content)) =>
               entCall.out.Content = Expected(ent.Content, entCall.variables.m["Name"])

\* " <p>{{.Name}}</p> " rendered with Name = "<b>hi</b>"
C13_Witness ==
    /\ Rendered
    /\ HasName
    /\ entCall.variables.m["Name"] = <<"<b>", "hi", "</b>">>
    /\ ent.Content = <<" ", "<p>", "{{", ".Name", "}}", "</p>", " ">>
    /\ entCall.err = NoErr
    /\ entCall.out.Content = <<" ", "<p>", "&lt;b&gt;", "hi", "&lt;/b&gt;", "</p>", " ">>

\* C14: the subject is rendered as plain text: a value put in by {{.Name}}
\* stands in the rendered subject character for character, HTML-special
\* characters included.
C14_SubjectNotEscaped ==
    (/\ Rendered
     /\ entCall.err = NoErr
     /\ HasName
     /\ <<".Name">> \in ActionsOf(ent.Subject))
    => entCall.out.Subject = TrimSpace(Expected(ent.Subject, entCall.variables.m["Name"]))

\* C15: for every successful Render the subject is the output with leading
\* and trailing whitespace trimmed, the content is the output untrimmed
\* (whitespace at either end of the template or of a value stays), an empty
\* subject or content template renders to the empty string and never makes
\* Render fail, and contentType is "text/html".
C15_SubjectTrimmedContentAsIs ==
    /\ (Rendered /\ ent.Subject = <<>> /\ ent.Content = <<>>) => entCall.err = NoErr
    /\ (Rendered /\ ent.Subject = <<>> /\ entCall.err # NoErr) =>
           entCall.err[1].msg = "failed to render content"
    /\ (Rendered /\ entCall.err = NoErr) =>
           /\ entCall.out.ContentType = "text/html"
           /\ ent.Subject = <<>> => entCall.out.Subject = <<>>
           /\ ent.Content = <<>> => entCall.out.Content = <<>>
           /\ entCall.out.Subject # <<>> =>
                  /\ entCall.out.Subject[1] \notin {" ", "\n", "\t"}
                  /\ entCall.out.Subject[Len(entCall.out.Subject)] \notin {" ", "\n", "\t"}
           /\ (ent.Subject = ent.Content /\ PlainValues) =>
                  entCall.out.Subject = TrimSpace(entCall.out.Content)
           /\ (ent.Content # <<>> /\ ent.Content[1] = " ") =>
                  entCall.out.Content[1] = " "
           /\ (ent.Content # <<>> /\ ent.Content[Len(ent.Content)] = " ") =>
                  entCall.out.Content[Len(entCall.out.Content)] = " "
           /\ (HasName /\ ent.Content = <<"{{", ".Name", "}}">>) =>
                  entCall.out.Content = EscapedForm(entCall.variables.m["Name"])

\* one template string as subject and content, with whitespace at both ends
\* of the template and of the value
C15_Witness ==
    /\ Rendered
    /\ entCall.err = NoErr
    /\ HasName
    /\ entCall.variables.m["Name"] = <<" ", "Ann", " ">>
    /\ ent.Subject = <<" ", "<p>", "{{", ".Name", "}}", "</p>", " ">>
    /\ ent.Content = ent.Subject
    /\ entCall.out.Subject = <<"<p>", " ", "Ann", " ", "</p>">>
    /\ entCall.out.Content = <<" ", "<p>", " ", "Ann", " ", "</p>", " ">>

\* C16: default(fallback, value) gives value when it is neither nil nor the
\* empty string and fallback otherwise: {{default "User" .Name}} renders
\* "User" when Name is absent or empty and Name's value otherwise, in the
\* subject (trimmed) as in the content (escaped).
C16_DefaultHelper ==
    (/\ Rendered
     /\ ent.Subject = ent.Content
     /\ <<"default", "\"User\"", ".Name">> \in ActionsOf(ent.Content)
     /\ Parse(ent.Content).ok)
    => LET shown == IF HasName /\ entCall.variables.m["Name"] # <<>>
                    THEN entCall.variables.m["Name"]
                    ELSE <<"User">>
       IN  /\ entCall.err = NoErr
           /\ entCall.out.Content = Expected(ent.Content, EscapedForm(shown))
           /\ PlainValues => entCall.out.Subject = TrimSpace(Expected(ent.Subject, shown))

\* {{default "User" .Name}} as subject and content with Name = ""
C16_Witness ==
    /\ Rendered
    /\ HasName
    /\ entCall.variables.m["Name"] = <<>>
    /\ ent.Subject = <<"{{", "default", "\"User\"", ".Name", "}}">>
    /\ ent.Content = ent.Subject
    /\ entCall.out.Subject = <<"User">>
    /\ entCall.out.Content = <<"User">>

-----------------------------------------------------------------------------
(* Properties of the repository and of the handlers' errors *)

StoredIDs == {r.ID : r \in store}

\* C17: the repository's Update and Delete on an id that is not stored return
\* ErrTemplateNotFound and leave the table as it was; a successful Delete
\* removes exactly the row of that id, after which GetByID of the id and
\* GetBySlug of the row's slug return ErrTemplateNotFound, and so does every
\* later Delete or lookup of the id.
C17_UnknownIdChangesNothing ==
    \A p \in Procs :
        (/\ Acts(p)
         /\ proc'[p].pc = "done"
         /\ proc'[p].op \in {"delete", "repo_update", "update"}
         /\ proc'[p].cmd.ID \notin StoredIDs)
        => /\ store' = store
           /\ proc'[p].err # NoErr
           /\ proc'[p].op \in {"delete", "repo_update"} =>
                  proc'[p].err = New(NotFoundCode, "template not found")

C17_DeleteRemovesRow ==
    \A p \in Procs :
        (/\ Acts(p)
         /\ proc'[p].op = "delete"
         /\ proc'[p].err = NoErr)
        => \E gone \in store :
               /\ gone.ID = proc'[p].cmd.ID
               /\ store' = store \ {gone}
               /\ GetByID(store', gone.ID).err = New(NotFoundCode, "template not found")
               /\ GetBySlug(store', gone.Slug).err = New(NotFoundCode, "template not found")

C17_DeletedStaysGone ==
    \A p, q \in Procs :
        (/\ Finished(p, "delete")
         /\ proc[p].err = NoErr
         /\ proc[q].pc = "done"
         /\ proc[q].n > proc[p].n
         /\ \/ proc[q].op \in {"delete", "repo_update"} /\ proc[q].cmd.ID = proc[p].cmd.ID
            \/ /\ proc[q].op = "render"
               /\ proc[q].cmd.by = "id"
               /\ proc[q].cmd.id = proc[p].cmd.ID)
        => proc[q].err = New(NotFoundCode, "template not found")

C17_UnknownIdIsNotFound ==
    /\ [][C17_UnknownIdChangesNothing]_vars
    /\ [][C17_DeleteRemovesRow]_vars
    /\ []C17_DeletedStaysGone

\* a template deleted, and a second Delete of its id turned down, with
\* another template still stored
C17_Witness ==
    \E p, q \in Procs :
        /\ Finished(p, "delete")
        /\ proc[p].err = NoErr
        /\ Finished(q, "delete")
        /\ proc[q].cmd.ID = proc[p].cmd.ID
        /\ proc[q].n > proc[p].n
        /\ proc[q].err = New(NotFoundCode, "template not found")

\* the column values a search is found in, whatever the case of the letters
SearchHits(search) ==
    CASE search = "MAIL" -> {"OTP mail", "OTP mail 2", "mail-verify-mail"}
      [] search = "welcome" -> {"Welcome", "welcome"}
      [] OTHER -> {}

\* the rows a list request asks for: every supplied filter holds, the search
\* in at least one of name, description and slug
Matching(rows, filters) ==
    {r \in rows :
        /\ (~filters.Type.isNil /\ filters.Type.v # "") => r.Type = filters.Type.v
        /\ (~filters.Status.isNil /\ filters.Status.v # "") => r.Status = filters.Status.v
        /\ ~filters.CreatedBy.isNil => r.CreatedBy = filters.CreatedBy.v
        /\ filters.Search # "" =>
               \/ r.Name \in SearchHits(filters.Search)
               \/ r.Description \in SearchHits(filters.Search)
               \/ r.Slug \in SearchHits(filters.Search)}

\* the rows in an order of creation time descending
NewestFirst(rows) ==
    {o \in [1..Cardinality(rows) -> rows] :
        \A i, j \in DOMAIN o : i < j => (o[i] # o[j] /\ o[i].CreatedAt >= o[j].CreatedAt)}

\* C18: List returns exactly the stored templates that satisfy all supplied
\* filters (type, status, createdBy by equality, the search in name OR
\* description OR slug), newest first, cut to the window [offset, offset+limit);
\* the Total written into the paging value is the number of all matching
\* templates whatever page and limit are, and is 0 with an empty result and
\* no error when nothing matches.
C18_TotalCountsMatching ==
    \A p \in Procs :
        (Acts(p) /\ proc'[p].op = "list" /\ proc'[p].pc = "list_select") =>
            /\ proc'[p].res.Paging.Total =
                   Cardinality(Matching(store, proc'[p].cmd.filters))
            /\ store' = store

C18_PageIsWindow ==
    \A p \in Procs :
        (Acts(p) /\ proc[p].pc = "list_select") =>
            LET paging == proc[p].res.Paging
                offset == (paging.Page - 1) * paging.Limit
                items == proc'[p].res.Templates
            IN  /\ proc'[p].pc = "done"
                /\ proc'[p].err = NoErr
                /\ proc'[p].res.Paging = paging
                /\ store' = store
                /\ \E o \in NewestFirst(Matching(store, proc[p].cmd.filters)) :
                       /\ Len(items) = Cardinality({i \in DOMAIN o :
                                             offset < i /\ i <= offset + paging.Limit})
                       /\ \A i \in DOMAIN items :
                              /\ items[i].ID = o[offset + i].ID
                              /\ items[i].Name = o[offset + i].Name
                              /\ items[i].Slug = o[offset + i].Slug
                              /\ items[i].Type = o[offset + i].Type
                              /\ items[i].Status = o[offset + i].Status
                              /\ items[i].Description = o[offset + i].Description
                              /\ items[i].CreatedBy = o[offset + i].CreatedBy
                /\ Matching(store, proc[p].cmd.filters) = {} => items = <<>>

DistinguishedCodes == {NotFoundCode, ForbiddenCode, "conflict", InvalidArgumentCode}

\* C19: no handler collapses a distinguished failure into a generic one: when
\* a create, update, render or OTP mail request fails because a template is
\* missing, not active, clashes on its slug or has invalid content, the error
\* the caller gets has the NotFound, Forbidden, Conflict or InvalidArgument
\* kind and not the Internal kind, also when another request deleted or
\* created the template between the handler's lookup and its write.
C19_KindsNotCollapsed ==
    \A p \in Procs :
        (/\ proc[p].pc = "done"
         /\ proc[p].op \in {"create", "update", "render", "send_otp"}
         /\ \E i \in DOMAIN proc[p].err : proc[p].err[i].code \in DistinguishedCodes)
        => Code(proc[p].err) \in DistinguishedCodes

-----------------------------------------------------------------------------
(* User module: domain errors and the User aggregate *)

ErrUserNotFound == New("user_not_found", "user not found")
ErrUserAlreadyExists == New("user_already_exists", "user with this email already exists")
ErrInvalidCredentials == New("invalid_credentials", "invalid email or password")
ErrInvalidOTP == New("invalid_otp", "invalid verification code")
ErrOTPExpired == New("otp_expired", "verification code has expired, please request a new one")

UserStatusActive == "active"

NilUser == [nil |-> TRUE]

\* bcrypt: the hash is not the password, and only the password it was made from matches it
hashPassword(password) == [bcrypt |-> password]

\* ref is the address of the User object: two holders of one *User share its fields
NewUser(email, password, firstName, lastName, userType, clock, ref) ==
    IF email = "" THEN
        [user |-> NilUser, err |-> New(InvalidArgumentCode, "email is required")]
    ELSE IF password = "" THEN
        [user |-> NilUser, err |-> New(InvalidArgumentCode, "password is required")]
    ELSE IF firstName = "" THEN
        [user |-> NilUser, err |-> New(InvalidArgumentCode, "first name is required")]
    ELSE IF lastName = "" THEN
        [user |-> NilUser, err |-> New(InvalidArgumentCode, "last name is required")]
    ELSE
        [user |-> [ID |-> 0, Email |-> email, PasswordHash |-> hashPassword(password),
                   FirstName |-> firstName, LastName |-> lastName, UserType |-> userType,
                   Status |-> UserStatusActive, EmailVerified |-> FALSE,
                   CreatedAt |-> clock, UpdatedAt |-> clock, LastLogin |-> NilPtr,
                   ref |-> ref],
         err |-> NoErr]

CheckPassword(u, password) ==
    IF u.PasswordHash = hashPassword(password) THEN NoErr
    ELSE New("unauthorized", "invalid password")

VerifyEmailTouchOnly(u, clock) == [u EXCEPT !.UpdatedAt = clock]

VerifyEmail(u, clock) == [u EXCEPT !.EmailVerified = TRUE, !.UpdatedAt = clock]

UpdateLastLogin(u, clock) == [u EXCEPT !.LastLogin = Ptr(clock), !.UpdatedAt = clock]

CanLoginAnyEmail(u) ==
    IF u.Status # UserStatusActive THEN New(ForbiddenCode, "user account is not active")
    ELSE NoErr

CanLogin(u) ==
    IF u.Status # UserStatusActive THEN New(ForbiddenCode, "user account is not active")
    ELSE IF ~u.EmailVerified THEN New(ForbiddenCode, "email not verified")
    ELSE NoErr

-----------------------------------------------------------------------------
(* adapters.InMemoryOTPStore and adapters.InMemoryTempUserStore.  Every     *)
(* method holds the store's mutex from its first to its last statement, so  *)
(* a call is one step.  The clock counts minutes.                           *)

TempUserTTL == 10

MapDelete(m, k) == [e \in DOMAIN m \ {k} |-> m[e]]

OTPStoreStore(m, email, otp, clock) ==
    [e \in DOMAIN m \cup {email} |->
        IF e = email THEN [OTP |-> otp, ExpiresAt |-> clock + OTPTTL] ELSE m[e]]

OTPStoreVerifyReusable(m, email, otp, clock) ==
    IF email \notin DOMAIN m THEN [store |-> m, err |-> ErrInvalidOTP]
    ELSE IF clock > m[email].ExpiresAt THEN
        [store |-> MapDelete(m, email), err |-> ErrOTPExpired]
    ELSE IF m[email].OTP # otp THEN [store |-> m, err |-> ErrInvalidOTP]
    ELSE [store |-> m, err |-> NoErr]

OTPStoreVerify(m, email, otp, clock) ==
    IF email \notin DOMAIN m THEN [store |-> m, err |-> ErrInvalidOTP]
    ELSE IF clock > m[email].ExpiresAt THEN
        [store |-> MapDelete(m, email), err |-> ErrOTPExpired]
    ELSE IF m[email].OTP # otp THEN [store |-> m, err |-> ErrInvalidOTP]
    ELSE [store |-> MapDelete(m, email), err |-> NoErr]

OTPStoreCleanupExpiredAtDeadline(m, clock) ==
    [e \in {k \in DOMAIN m : clock < m[k].ExpiresAt} |-> m[e]]

OTPStoreCleanupExpired(m, clock) ==
    [e \in {k \in DOMAIN m : ~(clock > m[k].ExpiresAt)} |-> m[e]]

TempUserStoreStore(m, email, user, clock) ==
    [e \in DOMAIN m \cup {email} |->
        IF e = email THEN [User |-> user, ExpiresAt |-> clock + TempUserTTL] ELSE m[e]]

TempUserStoreGetIgnoreExpiry(m, email, clock) ==
    IF email \notin DOMAIN m THEN [user |-> NilUser, err |-> ErrUserNotFound]
    ELSE [user |-> m[email].User, err |-> NoErr]

TempUserStoreGet(m, email, clock) ==
    IF email \notin DOMAIN m THEN [user |-> NilUser, err |-> ErrUserNotFound]
    ELSE IF clock > m[email].ExpiresAt THEN [user |-> NilUser, err |-> ErrUserNotFound]
    ELSE [user |-> m[email].User, err |-> NoErr]

TempUserStoreCleanupExpired(m, clock) ==
    [e \in {k \in DOMAIN m : ~(clock > m[k].ExpiresAt)} |-> m[e]]

-----------------------------------------------------------------------------
(* The two stores on their own: callers make any calls in any order while   *)
(* the clock advances and the cleanup goroutines run.                       *)

MaxHistory == 3     \* store calls made in one run
MaxClock == 11      \* last minute the clock reaches

StoreEmails == {"a@tixgo.com", "b@tixgo.com"}

PendingUser(email, firstName, ref) ==
    NewUser(email, "secret", firstName, "Doe", "customer", 0, ref).user

Call(receiver, op, email, arg, out, err) ==
    [receiver |-> receiver, op |-> op, email |-> email, arg |-> arg, out |-> out,
     err |-> err, at |-> now]

Served(call) ==
    /\ Len(history) < MaxHistory
    /\ history' = Append(history, call)

Advance(d) ==
    /\ now + d <= MaxClock
    /\ now' = now + d
    /\ UNCHANGED <<store, seq, otpStore, mails, proc, calls, ent, entCall,
                   tempUserStore, users, history, events>>

OTPStore(email, otp) ==
    /\ Served(Call("InMemoryOTPStore", "Store", email, otp, "", NoErr))
    /\ otpStore' = OTPStoreStore(otpStore, email, otp, now)
    /\ UNCHANGED <<store, seq, now, mails, proc, calls, ent, entCall, tempUserStore, users, events>>

OTPVerify(email, otp) ==
    /\ LET r == OTPStoreVerify(otpStore, email, otp, now) IN
       /\ Served(Call("InMemoryOTPStore", "Verify", email, otp, "", r.err))
       /\ otpStore' = r.store
    /\ UNCHANGED <<store, seq, now, mails, proc, calls, ent, entCall, tempUserStore, users, events>>

OTPDelete(email) ==
    /\ Served(Call("InMemoryOTPStore", "Delete", email, "", "", NoErr))
    /\ otpStore' = MapDelete(otpStore, email)
    /\ UNCHANGED <<store, seq, now, mails, proc, calls, ent, entCall, tempUserStore, users, events>>

\* the ticker of startCleanup fires
OTPCleanup ==
    /\ Served(Call("InMemoryOTPStore", "cleanupExpired", "", "", "", NoErr))
    /\ otpStore' = OTPStoreCleanupExpired(otpStore, now)
    /\ UNCHANGED <<store, seq, now, mails, proc, calls, ent, entCall, tempUserStore, users, events>>

NextOTPStore ==
    \/ \E email \in StoreEmails, otp \in {"100000", "999999"} : OTPStore(email, otp)
    \/ \E email \in StoreEmails, otp \in {"100000", "999999"} : OTPVerify(email, otp)
    \/ \E email \in StoreEmails : OTPDelete(email)
    \/ OTPCleanup
    \/ \E d \in {OTPTTL, OTPTTL + 1} : Advance(d)

SpecOTPStore == Init /\ [][NextOTPStore]_vars

TempStore(email, firstName) ==
    /\ Served(Call("InMemoryTempUserStore", "Store", email,
                   PendingUser(email, firstName, Len(history) + 1), "", NoErr))
    /\ tempUserStore' = TempUserStoreStore(tempUserStore, email,
                                           PendingUser(email, firstName, Len(history) + 1), now)
    /\ UNCHANGED <<store, seq, now, otpStore, mails, proc, calls, ent, entCall, users, events>>

TempGet(email) ==
    /\ LET r == TempUserStoreGet(tempUserStore, email, now) IN
       Served(Call("InMemoryTempUserStore", "Get", email, "", r.user, r.err))
    /\ UNCHANGED <<store, seq, now, otpStore, mails, proc, calls, ent, entCall,
                   tempUserStore, users, events>>

TempDelete(email) ==
    /\ Served(Call("InMemoryTempUserStore", "Delete", email, "", "", NoErr))
    /\ tempUserStore' = MapDelete(tempUserStore, email)
    /\ UNCHANGED <<store, seq, now, otpStore, mails, proc, calls, ent, entCall, users, events>>

\* the ticker of startCleanup fires
TempCleanup ==
    /\ Served(Call("InMemoryTempUserStore", "cleanupExpired", "", "", "", NoErr))
    /\ tempUserStore' = TempUserStoreCleanupExpired(tempUserStore, now)
    /\ UNCHANGED <<store, seq, now, otpStore, mails, proc, calls, ent, entCall, users, events>>

NextTempUserStore ==
    \/ \E email \in StoreEmails, firstName \in {"Ann", "Bob"} : TempStore(email, firstName)
    \/ \E email \in StoreEmails : TempGet(email)
    \/ \E email \in StoreEmails : TempDelete(email)
    \/ TempCleanup
    \/ \E d \in {OTPTTL, OTPTTL + 1} : Advance(d)

SpecTempUserStore == Init /\ [][NextTempUserStore]_vars

\* both stores side by side, as the user module holds them
NextStores == NextOTPStore \/ NextTempUserStore

SpecStores == Init /\ [][NextStores]_vars

-----------------------------------------------------------------------------
(* adapters.UserPostgresRepository over the users table; email is UNIQUE *)

\* the columns of a row: the address of the object it was written from is not one
Row(user) == [user EXCEPT !.ref = 0]

UserGetByEmail(table, email) ==
    IF \E u \in table.rows : u.Email = email
    THEN [user |-> CHOOSE u \in table.rows : u.Email = email, err |-> NoErr]
    ELSE [user |-> NilUser, err |-> ErrUserNotFound]

\* INSERT ... RETURNING id scanned into user.ID; up tells whether the database answers
UserCreate(table, user, up) ==
    IF ~up \/ \E u \in table.rows : u.Email = user.Email THEN
        [table |-> table, user |-> user,
         err |-> Wrap(New("pq", "the statement failed"), InternalCode, "failed to create user")]
    ELSE
        [table |-> [rows |-> table.rows \cup {Row([user EXCEPT !.ID = table.idSeq + 1])},
                    idSeq |-> table.idSeq + 1],
         user |-> [user EXCEPT !.ID = table.idSeq + 1],
         err |-> NoErr]

\* UPDATE users SET ... WHERE id = $1
UserUpdate(table, user, clock) ==
    IF \E u \in table.rows : u.ID = user.ID THEN
        [table |-> [table EXCEPT !.rows = {u \in table.rows : u.ID # user.ID}
                                          \cup {Row([user EXCEPT !.UpdatedAt = clock])}],
         user |-> [user EXCEPT !.UpdatedAt = clock],
         err |-> NoErr]
    ELSE
        [table |-> table, user |-> [user EXCEPT !.UpdatedAt = clock], err |-> ErrUserNotFound]

-----------------------------------------------------------------------------
(* Registration and verification: command.RegisterUserHandler publishes     *)
(* EventUserRegistered, whose handler sends the OTP mail, and               *)
(* command.VerifyOTPHandler moves the pending user into the users table.    *)

UserIdle == [n |-> 0, op |-> "idle", pc |-> "idle", cmd |-> NoCmd, user |-> NilUser,
             otpErr |-> NoErr, err |-> NoErr, res |-> NoCmd]

RegisterUserCommands ==
    [Email : {"a@tixgo.com"}, Password : {"secret12"}, FirstName : {"Ann", "Bob", ""},
     LastName : {"Doe"}]

\* a field written through one *User is seen by every holder of that pointer
Shared(m, user) ==
    [e \in DOMAIN m |-> IF m[e].User.ref = user.ref THEN [m[e] EXCEPT !.User = user]
                        ELSE m[e]]

\* userRepo.GetByEmail
RegisterLookup(p, cmd) ==
    /\ Accept(p)
    /\ LET request == [UserIdle EXCEPT !.n = calls + 1, !.op = "register", !.cmd = cmd] IN
       IF UserGetByEmail(users, cmd.Email).user # NilUser THEN
           Done(p, request, ErrUserAlreadyExists)
       ELSE
           proc' = [proc EXCEPT ![p] = [request EXCEPT !.pc = "register_pending"]]
    /\ UNCHANGED <<store, seq, now, otpStore, mails, ent, entCall,
                   tempUserStore, users, history, events>>

\* tempUserStore.Get
RegisterPending(p) ==
    /\ proc[p].pc = "register_pending"
    /\ LET tempUser == TempUserStoreGet(tempUserStore, proc[p].cmd.Email, now) IN
       IF tempUser.err = NoErr /\ tempUser.user # NilUser THEN
           Done(p, proc[p], ErrUserAlreadyExists)
       ELSE
           proc' = [proc EXCEPT ![p].pc = "register_store"]
    /\ UNCHANGED <<store, seq, now, otpStore, mails, calls, ent, entCall,
                   tempUserStore, users, history, events>>

\* NewUserCustomer, tempUserStore.Store and PublishEvent
RegisterStore(p) ==
    /\ proc[p].pc = "register_store"
    /\ LET cmd == proc[p].cmd
           made == NewUser(cmd.Email, cmd.Password, cmd.FirstName, cmd.LastName,
                           "customer", now, proc[p].n)
       IN
       IF made.err # NoErr THEN
           /\ Done(p, proc[p], made.err)
           /\ UNCHANGED <<tempUserStore, events>>
       ELSE
           /\ tempUserStore' = TempUserStoreStore(tempUserStore, cmd.Email, made.user, now)
           /\ events' = Append(events, [Email |-> made.user.Email])
           /\ Done(p, [proc[p] EXCEPT !.user = made.user, !.res = [Email |-> made.user.Email]],
                   NoErr)
    /\ UNCHANGED <<store, seq, now, otpStore, mails, calls, ent, entCall, users, history>>

\* HandleEventUserRegistered: the SendOTPVerifyMail command reaches its
\* handler, which generates the OTP and stores it
SendOTPOnUserRegistered(p, otp) ==
    /\ proc[p].pc \in {"idle", "done"}
    /\ events # <<>>
    /\ otpStore' = OTPStoreStore(otpStore, Head(events).Email, otp, now)
    /\ proc' = [proc EXCEPT ![p] = [Idle EXCEPT !.op = "send_otp", !.pc = "otp_publish",
                                                !.cmd = [Mail |-> Head(events).Email,
                                                         otp |-> otp]]]
    /\ events' = Tail(events)
    /\ UNCHANGED <<store, seq, now, mails, calls, ent, entCall, tempUserStore, users, history>>

\* otpStore.Verify
VerifyCheck(p, cmd) ==
    /\ Accept(p)
    /\ LET verified == OTPStoreVerify(otpStore, cmd.Email, cmd.OTP, now)
           request == [UserIdle EXCEPT !.n = calls + 1, !.op = "verify_otp", !.cmd = cmd,
                                       !.otpErr = verified.err]
       IN
       /\ otpStore' = verified.store
       /\ IF verified.err # NoErr THEN
              Done(p, request, ErrInvalidOTP)
          ELSE
              proc' = [proc EXCEPT ![p] = [request EXCEPT !.pc = "verify_get"]]
    /\ UNCHANGED <<store, seq, now, mails, ent, entCall, tempUserStore, users, history, events>>

\* tempUserStore.Get and user.VerifyEmail
VerifyGet(p) ==
    /\ proc[p].pc = "verify_get"
    /\ LET got == TempUserStoreGet(tempUserStore, proc[p].cmd.Email, now) IN
       IF got.err # NoErr THEN
           /\ Done(p, proc[p], got.err)
           /\ UNCHANGED tempUserStore
       ELSE
           /\ tempUserStore' = Shared(tempUserStore, VerifyEmail(got.user, now))
           /\ proc' = [proc EXCEPT ![p].user = VerifyEmail(got.user, now),
                                   ![p].pc = "verify_create"]
    /\ UNCHANGED <<store, seq, now, otpStore, mails, calls, ent, entCall, users, history, events>>

\* userRepo.Create
VerifyCreate(p, up) ==
    /\ proc[p].pc = "verify_create"
    /\ LET created == UserCreate(users, proc[p].user, up) IN
       /\ users' = created.table
       /\ tempUserStore' = Shared(tempUserStore, created.user)
       /\ IF created.err # NoErr THEN
              Done(p, proc[p], Wrap(created.err, InternalCode, "failed to create user"))
          ELSE
              proc' = [proc EXCEPT ![p].user = created.user, ![p].pc = "verify_cleanup"]
    /\ UNCHANGED <<store, seq, now, otpStore, mails, calls, ent, entCall, history, events>>

\* tempUserStore.Delete and the result
VerifyCleanup(p) ==
    /\ proc[p].pc = "verify_cleanup"
    /\ tempUserStore' = MapDelete(tempUserStore, proc[p].cmd.Email)
    /\ Done(p, [proc[p] EXCEPT !.res = [UserID |-> proc[p].user.ID,
                                        Email |-> proc[p].user.Email]], NoErr)
    /\ UNCHANGED <<store, seq, now, otpStore, mails, calls, ent, entCall, users, history, events>>

\* the cleanup goroutines of the two stores
CleanupOTPs ==
    /\ otpStore' = OTPStoreCleanupExpired(otpStore, now)
    /\ UNCHANGED <<store, seq, now, mails, proc, calls, ent, entCall,
                   tempUserStore, users, history, events>>

CleanupTempUsers ==
    /\ tempUserStore' = TempUserStoreCleanupExpired(tempUserStore, now)
    /\ UNCHANGED <<store, seq, now, otpStore, mails, proc, calls, ent, entCall,
                   users, history, events>>

\* the OTP mail template is in place and active
InitUser ==
    /\ store = {[NewTemplate("OTP mail", SlugMailOTP, SubjectOK, ContentOTP, "email",
                             Slice(<<"otp">>), "", 1, 0).tmpl
                    EXCEPT !.ID = 1, !.Status = TemplateStatusActive]}
    /\ seq = 1
    /\ now = 0
    /\ otpStore = [e \in {} |-> NoCmd]
    /\ tempUserStore = [e \in {} |-> NoCmd]
    /\ users = [rows |-> {}, idSeq |-> 0]
    /\ history = <<>>
    /\ events = <<>>
    /\ mails = <<>>
    /\ proc = [p \in Procs |-> Idle]
    /\ calls = 0
    /\ ent = NilTemplate
    /\ entCall = [op |-> "none"]

NextUser ==
    \/ \E p \in Procs, cmd \in RegisterUserCommands : RegisterLookup(p, cmd)
    \/ \E p \in Procs : RegisterPending(p)
    \/ \E p \in Procs : RegisterStore(p)
    \/ \E p \in Procs, otp \in {"100000", "999999"} : SendOTPOnUserRegistered(p, otp)
    \/ \E p \in Procs : SendOTPPublish(p)
    \/ \E p \in Procs, cmd \in [Email : {"a@tixgo.com"}, OTP : {"100000", "999999"}] :
           VerifyCheck(p, cmd)
    \/ \E p \in Procs : VerifyGet(p)
    \/ \E p \in Procs, up \in BOOLEAN : VerifyCreate(p, up)
    \/ \E p \in Procs : VerifyCleanup(p)
    \/ CleanupOTPs
    \/ CleanupTempUsers
    \/ Advance(TempUserTTL + 1)

SpecUser == InitUser /\ [][NextUser]_vars

-----------------------------------------------------------------------------
(* Login: command.LoginUserHandler over a users table that holds, for each  *)
(* email, no row or one row of any status, verified or not.                 *)

\* GetByEmail, CheckPassword, CanLogin and UpdateLastLogin
LoginCheck(p, cmd) ==
    /\ Accept(p)
    /\ LET request == [UserIdle EXCEPT !.n = calls + 1, !.op = "login", !.cmd = cmd]
           found == UserGetByEmail(users, cmd.Email)
       IN
       IF found.err # NoErr THEN
           Done(p, request, ErrInvalidCredentials)
       ELSE IF CheckPassword(found.user, cmd.Password) # NoErr THEN
           Done(p, request, ErrInvalidCredentials)
       ELSE IF CanLogin(found.user) # NoErr THEN
           Done(p, request, CanLogin(found.user))
       ELSE
           proc' = [proc EXCEPT ![p] = [request EXCEPT !.user = UpdateLastLogin(found.user, now),
                                                       !.pc = "login_update"]]
    /\ UNCHANGED <<store, seq, now, otpStore, mails, ent, entCall,
                   tempUserStore, users, history, events>>

\* userRepo.Update and auth.JWTService.GenerateTokenPair: each token carries
\* its signed claims
LoginUpdate(p) ==
    /\ proc[p].pc = "login_update"
    /\ LET updated == UserUpdate(users, proc[p].user, now)
           claims == [UserID |-> ToString(updated.user.ID),
                      UserType |-> updated.user.UserType, Type |-> "access", IssuedAt |-> now]
           tokens == [accessToken |-> claims,
                      refreshToken |-> [claims EXCEPT !.Type = "refresh"],
                      err |-> NoErr]
       IN
       /\ users' = updated.table
       /\ IF updated.err # NoErr THEN
              Done(p, [proc[p] EXCEPT !.user = updated.user],
                   Wrap(updated.err, InternalCode, "failed to update last login"))
          ELSE
              Done(p, [proc[p] EXCEPT !.user = updated.user,
                                      !.res = [UserID |-> updated.user.ID,
                                               AccessToken |-> tokens.accessToken,
                                               RefreshToken |-> tokens.refreshToken]],
                   NoErr)
    /\ UNCHANGED <<store, seq, now, otpStore, mails, calls, ent, entCall,
                   tempUserStore, history, events>>

\* the rows an email may have in the table: none, or one
StoredUsers(id, email) ==
    {{}} \cup {{[Row(NewUser(email, "secret12", "Ann", "Doe", "customer", 0, 0).user)
                     EXCEPT !.ID = id, !.Status = status, !.EmailVerified = emailVerified]} :
                  status \in {UserStatusActive, "inactive", "suspended"},
                  emailVerified \in BOOLEAN}

InitLogin ==
    /\ \E a \in StoredUsers(1, "a@tixgo.com"), b \in StoredUsers(2, "b@tixgo.com") :
           users = [rows |-> a \cup b, idSeq |-> 2]
    /\ store = {}
    /\ seq = 0
    /\ now = 0
    /\ otpStore = [e \in {} |-> NoCmd]
    /\ tempUserStore = [e \in {} |-> NoCmd]
    /\ history = <<>>
    /\ events = <<>>
    /\ mails = <<>>
    /\ proc = [p \in Procs |-> UserIdle]
    /\ calls = 0
    /\ ent = NilTemplate
    /\ entCall = [op |-> "none"]

NextLogin ==
    \/ \E p \in Procs, cmd \in [Email : StoreEmails, Password : {"secret12", "guess"}] :
           LoginCheck(p, cmd)
    \/ \E p \in Procs : LoginUpdate(p)
    \/ Tick

SpecLogin == InitLogin /\ [][NextLogin]_vars

-----------------------------------------------------------------------------
(* query.ListTemplatesHandler.Handle called by a caller of the query         *)
(* package, with whatever *pagination.Paging that caller holds.              *)

\* a nil pointer, or a pointer to a Paging whose fields the caller set or left zero
PagingArguments ==
    {NilPtr} \cup {Ptr([Page |-> page, Limit |-> limit, Total |-> 0]) :
                      page \in (-1..2), limit \in (-1..2)}

\* PostgreSQL refuses a negative LIMIT or OFFSET
SelectError(paging) ==
    IF paging.Limit < 0 THEN New("pq", "LIMIT must not be negative")
    ELSE IF GetOffset(paging) < 0 THEN New("pq", "OFFSET must not be negative")
    ELSE NoErr

\* one call of Handle: its arguments, the call of List it made, its results
HandleCall(filters, paging, list, res, err) ==
    [op |-> "Handle", filters |-> filters, paging |-> paging, list |-> list,
     res |-> res, err |-> err]

HandleListTemplates(filters, paging) ==
    /\ entCall.op = "none"
    /\ LET domainFilters == DomainFilters(filters)
           passed == IF paging.isNil THEN Fulfill([Page |-> 0, Limit |-> 0, Total |-> 0])
                     ELSE paging.v
           counted == [passed EXCEPT !.Total = ListTotal(store, domainFilters)]
           list == [called |-> TRUE, filters |-> domainFilters, paging |-> passed]
       IN
       IF ~domainFilters.Type.isNil /\ ~IsValidTemplateType(domainFilters.Type.v) THEN
           entCall' = HandleCall(filters, paging, [called |-> FALSE], NoCmd, ErrInvalidTemplateType)
       ELSE IF /\ ~domainFilters.Status.isNil
               /\ domainFilters.Status.v \notin {TemplateStatusActive, TemplateStatusInactive,
                                                 TemplateStatusDraft} THEN
           entCall' = HandleCall(filters, paging, [called |-> FALSE], NoCmd,
                                 ErrInvalidTemplateStatus)
       ELSE IF SelectError(passed) # NoErr THEN
           entCall' = HandleCall(filters, paging, list, NoCmd,
                                 Wrap(Wrap(SelectError(passed), InternalCode,
                                           "failed to list templates"),
                                      InternalCode, "failed to list templates"))
       ELSE
           \E order \in OrderByCreatedAtDesc({r \in store : ListConditions(domainFilters, r)}) :
               LET templates == ListPage(order, passed) IN
               entCall' = HandleCall(filters, paging, list,
                                     [Templates |-> [i \in DOMAIN templates |->
                                                        TemplateListItem(templates[i])],
                                      Paging |-> counted],
                                     NoErr)
    /\ UNCHANGED <<store, seq, now, otpStore, mails, proc, calls, ent,
                   tempUserStore, users, history, events>>

NextListHandler ==
    \E filters \in ListFilters, paging \in PagingArguments : HandleListTemplates(filters, paging)

SpecListHandler == InitList /\ [][NextListHandler]_vars

-----------------------------------------------------------------------------
(* Properties of the in-memory stores *)

LastCall == history'[Len(history')]

Called(receiver, op) ==
    /\ Len(history') = Len(history) + 1
    /\ LastCall.receiver = receiver
    /\ LastCall.op = op

Is(call, receiver, op) == call.receiver = receiver /\ call.op = op

\* the entries of every other email are as they were
OthersKept(before, after, email) ==
    /\ DOMAIN after \ {email} = DOMAIN before \ {email}
    /\ \A e \in DOMAIN before \ {email} : after[e] = before[e]

StoredBetween(i, j, email) ==
    \E k \in (i + 1)..(j - 1) :
        Is(history[k], "InMemoryOTPStore", "Store") /\ history[k].email = email

\* C21 (Verify, step by step): with no entry for the email Verify returns
\* ErrInvalidOTP; with an entry whose expiry has passed it returns ErrOTPExpired
\* and removes the entry, whatever the code; with an unexpired entry it returns
\* nil and removes the entry when the code is the stored one, and returns
\* ErrInvalidOTP and leaves the entry when it is not.  No other entry changes.
C21_VerifyOutcome ==
    Called("InMemoryOTPStore", "Verify") =>
        LET email == LastCall.email
            err == LastCall.err
        IN
        /\ OthersKept(otpStore, otpStore', email)
        /\ IF email \notin DOMAIN otpStore THEN
               err = ErrInvalidOTP /\ otpStore' = otpStore
           ELSE IF now > otpStore[email].ExpiresAt THEN
               err = ErrOTPExpired /\ email \notin DOMAIN otpStore'
           ELSE IF otpStore[email].OTP = LastCall.arg THEN
               err = NoErr /\ email \notin DOMAIN otpStore'
           ELSE
               err = ErrInvalidOTP /\ otpStore' = otpStore

\* C21 (single use): two Verify calls for one email are not both accepted unless
\* an OTP was stored for that email between them.
C21_SingleUse ==
    \A i, j \in DOMAIN history :
        ( /\ i < j
          /\ Is(history[i], "InMemoryOTPStore", "Verify") /\ history[i].err = NoErr
          /\ Is(history[j], "InMemoryOTPStore", "Verify") /\ history[j].email = history[i].email
          /\ ~StoredBetween(i, j, history[i].email) )
        => history[j].err = ErrInvalidOTP

\* C21: InMemoryOTPStore.Verify accepts exactly the stored, unexpired code and
\* removes the entry, so a code is accepted once; it answers ErrInvalidOTP for a
\* missing entry or another code (the entry stays) and ErrOTPExpired for an
\* expired entry, which it removes.
C21_Verify == [][C21_VerifyOutcome]_vars /\ []C21_SingleUse

\* a code was accepted, and presented again it was refused
C21_Witness ==
    \E i, j \in DOMAIN history :
        /\ i < j
        /\ Is(history[i], "InMemoryOTPStore", "Verify") /\ history[i].err = NoErr
        /\ Is(history[j], "InMemoryOTPStore", "Verify") /\ history[j].email = history[i].email
        /\ history[j].arg = history[i].arg
        /\ history[j].err = ErrInvalidOTP

Expired(entry) == now > entry.ExpiresAt

\* what is left of a store when exactly its expired entries are taken out
Unexpired(m) == [e \in {k \in DOMAIN m : ~Expired(m[k])} |-> m[e]]

\* C22: a run of cleanupExpired, on either store, leaves exactly the entries
\* whose expiry has not passed, each with the value it had, and does not touch
\* the other store.
C22_CleanupStep ==
    /\ Called("InMemoryOTPStore", "cleanupExpired") =>
           otpStore' = Unexpired(otpStore) /\ tempUserStore' = tempUserStore
    /\ Called("InMemoryTempUserStore", "cleanupExpired") =>
           tempUserStore' = Unexpired(tempUserStore) /\ otpStore' = otpStore

C22_CleanupRemovesExactlyExpired == [][C22_CleanupStep]_vars

\* the OTP store has just been cleaned: it held an expired and a valid entry
\* and now holds the valid one alone
C22_Witness ==
    /\ history # <<>>
    /\ Is(history[Len(history)], "InMemoryOTPStore", "cleanupExpired")
    /\ DOMAIN otpStore # {}
    /\ \E i \in DOMAIN history :
           /\ Is(history[i], "InMemoryOTPStore", "Store")
           /\ history[i].at + OTPTTL < now
           /\ history[i].email \notin DOMAIN otpStore
           /\ \A k \in (i + 1)..Len(history) : history[k].op = "cleanupExpired"
                                               \/ history[k].email # history[i].email

\* the calls before the j-th that stored a pending user under email
StoresBefore(j, email) ==
    {i \in 1..(j - 1) : Is(history[i], "InMemoryTempUserStore", "Store")
                        /\ history[i].email = email}

Latest(S) == CHOOSE i \in S : \A k \in S : k <= i

DeletedBetween(i, j, email) ==
    \E k \in (i + 1)..(j - 1) :
        Is(history[k], "InMemoryTempUserStore", "Delete") /\ history[k].email = email

\* C23: Get(email) returns the user of the latest Store under email when there is
\* one, no Delete of email followed it and no more than the time-to-live has
\* passed since it; in every other case (never stored, deleted, expired, cleaned
\* up or not) it returns ErrUserNotFound and no user.
C23_GetReturnsLatestPending ==
    \A j \in DOMAIN history :
        Is(history[j], "InMemoryTempUserStore", "Get") =>
            LET email == history[j].email
                S == StoresBefore(j, email)
            IN
            IF /\ S # {}
               /\ ~DeletedBetween(Latest(S), j, email)
               /\ history[j].at <= history[Latest(S)].at + TempUserTTL
            THEN history[j].err = NoErr /\ history[j].out = history[Latest(S)].arg
            ELSE history[j].err = ErrUserNotFound /\ history[j].out = NilUser

\* a second user was stored under an email and Get returned that one
C23_Witness ==
    \E j \in DOMAIN history :
        /\ Is(history[j], "InMemoryTempUserStore", "Get")
        /\ history[j].err = NoErr
        /\ \E i \in StoresBefore(j, history[j].email) : history[i].arg # history[j].out

\* the Verify calls that present the code stored by the i-th call, before its
\* expiry, while that Store is still the only write made for the email
Presenting(i) ==
    {j \in (i + 1)..Len(history) :
        /\ Is(history[j], "InMemoryOTPStore", "Verify")
        /\ history[j].email = history[i].email
        /\ history[j].arg = history[i].arg
        /\ history[j].at <= history[i].at + OTPTTL
        /\ \A k \in (i + 1)..(j - 1) :
               history[k].email = history[i].email
                   => Is(history[k], "InMemoryOTPStore", "Verify")}

\* C26: of the Verify calls that present the stored, unexpired code after one
\* Store, in whatever order the mutex serves them, exactly one returns nil and
\* every other one returns ErrInvalidOTP.
C26_ExactlyOneVerifyAccepted ==
    \A i \in DOMAIN history :
        (Is(history[i], "InMemoryOTPStore", "Store") /\ Presenting(i) # {}) =>
            /\ Cardinality({j \in Presenting(i) : history[j].err = NoErr}) = 1
            /\ \A j \in Presenting(i) : history[j].err \in {NoErr, ErrInvalidOTP}

\* two calls presented the stored code after one Store
C26_Witness ==
    \E i \in DOMAIN history :
        /\ Is(history[i], "InMemoryOTPStore", "Store")
        /\ Cardinality(Presenting(i)) >= 2

-----------------------------------------------------------------------------
(* Properties of registration and verification *)

Stepped(p) == proc'[p] # proc[p]

\* C24 (who writes): a step of a RegisterUser command leaves the users table
\* as it is, and a step that adds a row is a step of a VerifyOTP command whose
\* otpStore.Verify returned nil for the email of that row; the row is added
\* with EmailVerified set and no row is changed or removed.
C24_OnlyVerifyOTPCreates ==
    /\ \A p \in Procs : (Stepped(p) /\ proc'[p].op = "register") => users' = users
    /\ users' # users =>
           /\ users.rows \subseteq users'.rows
           /\ \E p \in Procs :
                  /\ Stepped(p)
                  /\ proc[p].op = "verify_otp"
                  /\ proc[p].otpErr = NoErr
                  /\ \A u \in users'.rows \ users.rows :
                         u.Email = proc[p].cmd.Email /\ u.EmailVerified

\* C24 (what is stored): every row of the users table has EmailVerified set.
C24_PersistedUsersVerified == \A u \in users.rows : u.EmailVerified

Admitting(cmd) ==
    {u \in users.rows : /\ u.Email = cmd.Email
                        /\ u.PasswordHash = [bcrypt |-> cmd.Password]
                        /\ u.Status = "active"
                        /\ u.EmailVerified}

\* C25 (a login command as it returns): tokens are returned only when the table
\* holds a row with the email of the command, the hash of its password, status
\* active and a verified email; when it holds no such row the command returns
\* an error and no tokens and the table is left as it was; when it holds no row
\* with the email, or one with another password, the error is
\* ErrInvalidCredentials in both cases.
C25_LoginOutcome ==
    \A p \in Procs :
        (Stepped(p) /\ proc'[p].op = "login" /\ proc'[p].pc = "done") =>
            LET cmd == proc'[p].cmd
                known == {u \in users.rows : u.Email = cmd.Email}
            IN
            /\ proc'[p].res # NoCmd => (Admitting(cmd) # {} /\ proc'[p].err = NoErr)
            /\ Admitting(cmd) = {} =>
                   /\ proc'[p].res = NoCmd
                   /\ proc'[p].err # NoErr
                   /\ users' = users
            /\ (known = {} \/ \E u \in known : u.PasswordHash # [bcrypt |-> cmd.Password]) =>
                   proc'[p].err = ErrInvalidCredentials

\* C25 (last login): only rows that are active and verified carry a last login.
C25_LastLoginOnlyForAdmitted ==
    \A u \in users.rows :
        u.LastLogin # NilPtr => (u.Status = "active" /\ u.EmailVerified)

\* C25: LoginUserHandler issues tokens only for an existing email with the
\* matching password, active status and verified email; every other login
\* issues nothing and leaves the last login alone, and an unknown email and a
\* wrong password give the same ErrInvalidCredentials.
C25_LoginOnlyWhenAdmitted == [][C25_LoginOutcome]_vars /\ []C25_LastLoginOnlyForAdmitted

\* one login was let in and one, for an unverified account, was refused
C25_Witness ==
    \E p, q \in Procs :
        /\ proc[p].op = "login" /\ proc[p].pc = "done" /\ proc[p].res # NoCmd
        /\ \E u \in users.rows : u.ID = proc[p].res.UserID /\ u.LastLogin # NilPtr
        /\ proc[q].op = "login" /\ proc[q].pc = "done" /\ proc[q].err # NoErr
        /\ \E u \in users.rows : /\ u.Email = proc[q].cmd.Email
                                 /\ u.PasswordHash = [bcrypt |-> proc[q].cmd.Password]
                                 /\ ~u.EmailVerified

Registered(p) ==
    /\ proc[p].op = "register"
    /\ proc[p].pc = "done"
    /\ proc[p].cmd.FirstName # ""

\* C27: when the only two commands accepted so far are RegisterUser commands
\* for one email, with no user of that email stored or pending before them, and
\* both have returned, one of them succeeded, the other returned
\* ErrUserAlreadyExists, and the pending user is the one of the successful
\* command.
C27_OneOfTwoRegistrationsWins ==
    \A p, q \in Procs :
        ( /\ p # q
          /\ calls = 2 /\ now = 0
          /\ Registered(p) /\ Registered(q)
          /\ proc[p].cmd.Email = proc[q].cmd.Email )
        => \E w \in {p, q} :
               /\ proc[w].err = NoErr
               /\ \A l \in {p, q} \ {w} : proc[l].err = ErrUserAlreadyExists
               /\ proc[w].cmd.Email \in DOMAIN tempUserStore
               /\ tempUserStore[proc[w].cmd.Email].User.ref = proc[w].n

\* C28: when a RegisterUser command and a VerifyOTP command are all that was
\* accepted, no time has passed, and the VerifyOTP command returned an error
\* although otpStore.Verify had accepted its code, the OTP store still holds
\* that code for the email.
C28_FailedVerificationKeepsOTP ==
    \A p \in Procs :
        ( /\ calls = 2 /\ now = 0
          /\ proc[p].op = "verify_otp" /\ proc[p].pc = "done"
          /\ proc[p].otpErr = NoErr
          /\ proc[p].err # NoErr )
        => /\ proc[p].cmd.Email \in DOMAIN otpStore
           /\ otpStore[proc[p].cmd.Email].OTP = proc[p].cmd.OTP

-----------------------------------------------------------------------------
(* Properties of concurrent updates and of paging *)

\* the row carries every field the command supplied
Carries(r, cmd) ==
    /\ cmd.Name # "" => r.Name = cmd.Name
    /\ cmd.Subject # <<>> => r.Subject = cmd.Subject
    /\ cmd.Content # <<>> => r.Content = cmd.Content
    /\ cmd.Description # "" => r.Description = cmd.Description
    /\ ~cmd.Variables.isNil => r.Variables = cmd.Variables
    /\ cmd.Status # "" => r.Status = cmd.Status

\* no field is supplied by both commands
DisjointFields(c, d) ==
    /\ c.Name = "" \/ d.Name = ""
    /\ c.Subject = <<>> \/ d.Subject = <<>>
    /\ c.Content = <<>> \/ d.Content = <<>>
    /\ c.Description = "" \/ d.Description = ""
    /\ c.Variables.isNil \/ d.Variables.isNil
    /\ c.Status = "" \/ d.Status = ""

\* C29: when the template was created and then two UpdateTemplate commands for
\* its id, supplying disjoint fields, were the only other commands and both
\* returned success, the stored row carries the fields of both.
C29_DisjointUpdatesBothTakeEffect ==
    \A p, q \in Procs :
        ( /\ p # q
          /\ calls = 3
          /\ proc[p].op = "update" /\ proc[p].pc = "done" /\ proc[p].err = NoErr
          /\ proc[q].op = "update" /\ proc[q].pc = "done" /\ proc[q].err = NoErr
          /\ proc[p].cmd.ID = proc[q].cmd.ID
          /\ DisjointFields(proc[p].cmd, proc[q].cmd) )
        => \E r \in store :
               /\ r.ID = proc[p].cmd.ID
               /\ Carries(r, proc[p].cmd)
               /\ Carries(r, proc[q].cmd)

\* C30: whenever ListTemplatesHandler.Handle invokes the repository's List, the
\* paging it hands over has page >= 1 and limit >= 1, so the offset
\* (page - 1) * limit is not negative and the limit is not zero.
C30_ListInvokedWithValidPaging ==
    (entCall.op = "Handle" /\ entCall.list.called) =>
        /\ entCall.list.paging.Page >= 1
        /\ entCall.list.paging.Limit >= 1
        /\ (entCall.list.paging.Page - 1) * entCall.list.paging.Limit >= 0

====
